---- MODULE Spec2Model ----
(***************************************************************************)
(* Offline-first synchronisation engine of src/services/storageService.ts  *)
(* (second snapshot of the file, lines 551-1218) against the key-value     *)
(* worker of src/worker.js.  Each device owns a localStorage; both devices *)
(* use the same bearer token, hence the same key of the worker's STORE.    *)
(*                                                                         *)
(* One action is one JavaScript turn: the synchronous code that runs from  *)
(* the start of a handler (or from the resumption after an await) to the   *)
(* next await.  The HTTP exchange of a request is two steps: the worker    *)
(* handles the request, then the client resumes on the response.           *)
(***************************************************************************)
EXTENDS Integers, Sequences, FiniteSets

\* ------------------------------------------------------------- bounds
\* Devices (engine instances), each with its own localStorage.
Inst == {"d1", "d2"}
\* Inventory item ids and estimate ids a list may hold.
Items == {"A"}
Ests == {"E"}
\* Largest wall-clock reading (Date.now()) and largest logical clock.
MaxClock == 2
\* SpecClock: largest wall-clock reading and number of recorded tick() calls.
MaxWall == 11
MaxTicks == 3
\* Invocations of syncData that can be past the guard at once (the guard
\* keeps it to one; the second slot is what a broken guard would fill), and
\* the manual force action of a device (one at a time).
SyncSlots == {"s1", "s2"}
ForceSlots == {"f"}
Slots == SyncSlots \cup ForceSlots

\* ------------------------------------------------------------ helpers
Max(a, b) == IF a >= b THEN a ELSE b

\* Number.prototype.toString(): the decimal digits of a non-negative integer.
RECURSIVE toString(_)
toString(n) == IF n < 10 THEN <<n>> ELSE toString(n \div 10) \o <<n % 10>>

\* parseInt(s) of a string of decimal digits.
RECURSIVE ParseInt(_)
ParseInt(s) ==
    IF Len(s) = 0 THEN 0
    ELSE 10 * ParseInt(SubSeq(s, 1, Len(s) - 1)) + s[Len(s)]

\* A SyncPayload (types of storageService.ts): the unit of replication.
Envelope(inv, est, ts) == [inventory |-> inv, estimates |-> est, timestamp |-> ts]
\* worker.js: the payload of a GET when the key holds nothing.
DefaultEnvelope == Envelope({}, {}, 0)

VARIABLES
    inventory,   \* localStorage[STORAGE_KEY_INVENTORY] of each device
    estimates,   \* localStorage[STORAGE_KEY_ESTIMATES] of each device
    lastSyncTs,  \* localStorage[STORAGE_KEY_LAST_SYNC]: digits, <<>> = key absent
    config,      \* localStorage[STORAGE_KEY_CONFIG] holds a workerUrl
    STORE,       \* the worker's KV entry of the shared key: <<>> or <<body>>
    isSyncing,   \* module variable isSyncing of each device
    tasks,       \* the async invocations of each device, by slot
    status,      \* last (status) passed to statusListener
    invView,     \* last list passed to inventoryListener
    estView,     \* last list passed to estimatesListener
    ticks,       \* SpecClock: the record of the touchLocalData calls made
    log,         \* SpecTwice, SpecRetry: the record of a scenario's events
    events,      \* SpecTabs: the storage events the browser has yet to
                 \* dispatch to each tab, by the key written
    book,        \* SpecPay: the records of localStorage[STORAGE_KEY_ESTIMATES]
                 \* of Dev, with the fields the payment allocation reads
    call,        \* SpecPay: the record of the last addPaymentToEstimate call
    editor       \* SpecInvoice: the state of App (src/App.tsx) that
                 \* handleSaveEstimate reads: currentEstimateId and estimates

syncVars == <<inventory, estimates, lastSyncTs, config, STORE, isSyncing, tasks,
              status, invView, estView>>
\* The records kept for the scenarios; the program has no such state.
hist == <<ticks, log, events, book, call, editor>>
histNoLog == <<ticks, events, book, call, editor>>
histNoTicks == <<log, events, book, call, editor>>
vars == <<inventory, estimates, lastSyncTs, config, STORE, isSyncing, tasks,
          status, invView, estView, ticks, log, events, book,
          call, editor>>

\* No addPaymentToEstimate call made yet.
NoCall == [n |-> 0, target |-> "", amount |-> 0, before |-> <<>>,
           posted |-> <<>>]

\* App as mounted: no estimate in the editor (line 145), an empty list.
NoEditor == [currentEstimateId |-> <<>>, estimates |-> <<>>]

InitHist ==
    /\ ticks = <<>>
    /\ log = <<>>
    /\ events = [i \in Inst |-> {}]
    /\ book = <<>>
    /\ call = NoCall
    /\ editor = NoEditor

\* A free slot.
IdleTask == [pc |-> "idle", lts |-> 0, env |-> DefaultEnvelope]

\* parseInt(localStorage.getItem(STORAGE_KEY_LAST_SYNC) || "0")
StoredTS(ls) == ParseInt(IF ls = <<>> THEN <<0>> ELSE ls)

Init ==
    /\ inventory = [i \in Inst |-> {}]
    /\ estimates = [i \in Inst |-> {}]
    /\ lastSyncTs = [i \in Inst |-> <<>>]
    /\ config = [i \in Inst |-> FALSE]
    /\ STORE = <<>>
    /\ isSyncing = [i \in Inst |-> FALSE]
    /\ tasks = [i \in Inst |-> [s \in Slots |-> IdleTask]]
    /\ status = [i \in Inst |-> "offline"]
    /\ invView = [i \in Inst |-> {}]
    /\ estView = [i \in Inst |-> {}]
    /\ InitHist

\* ------------------------------------------------------ clock (tick)
\* Faulty variants of TouchNext: the wall clock alone; the stored clock alone.
TouchNextWall(now, storedTS) == now
TouchNextStored(now, storedTS) == storedTS + 1

\* touchLocalData, line 744: next = Math.max(now, storedTS + 1)
TouchNext(now, storedTS) == Max(now, storedTS + 1)

\* touchLocalData: the new content of STORAGE_KEY_LAST_SYNC.
touchLocalData(now, ls) == toString(TouchNext(now, StoredTS(ls)))

\* ------------------------------------------------- syncData, to the GET
\* Faulty variant of SyncGuard: the guard is missing.
SyncGuardOff(i) == FALSE

\* line 751: if (isSyncing) return;
SyncGuard(i) == isSyncing[i]

FreeSyncSlots(i) == {s \in SyncSlots : tasks[i][s].pc = "idle"}

\* syncData() up to its first await (lines 751-784), called by device i when
\* its configuration is cfg, its stored clock is ls and the last status
\* notified is st.
SyncData(i, cfg, ls, st) ==
    IF SyncGuard(i)
    THEN /\ status' = [status EXCEPT ![i] = st]
         /\ UNCHANGED <<isSyncing, tasks>>
    ELSE IF ~cfg
    THEN /\ status' = [status EXCEPT ![i] = "offline"]
         /\ UNCHANGED <<isSyncing, tasks>>
    ELSE /\ FreeSyncSlots(i) # {}
         /\ LET s == CHOOSE x \in FreeSyncSlots(i) :
                        \A y \in FreeSyncSlots(i) : x = "s1" \/ y # "s1"
            IN tasks' = [tasks EXCEPT ![i][s] =
                            [pc |-> "get", lts |-> StoredTS(ls),
                             env |-> DefaultEnvelope]]
         /\ isSyncing' = [isSyncing EXCEPT ![i] = TRUE]
         /\ status' = [status EXCEPT ![i] = st]

\* The finally block of syncData (lines 841-844) for the invocation in slot s.
SyncFinally(i, s) ==
    /\ tasks' = [tasks EXCEPT ![i][s] = IdleTask]
    /\ isSyncing' = [isSyncing EXCEPT ![i] = FALSE]

\* ---------------------------------------------------- local mutations
\* Faulty variant of TouchAndSync: syncData() is called before the clock is
\* ticked.
TouchAndSyncEarly(i, now) ==
    /\ lastSyncTs' = [lastSyncTs EXCEPT ![i] = touchLocalData(now, lastSyncTs[i])]
    /\ SyncData(i, config[i], lastSyncTs[i], "syncing")

\* The common tail of every mutation: touchLocalData(), notifyStatus('syncing'),
\* syncData() (e.g. lines 971-973); now is the reading of Date.now().
TouchAndSync(i, now) ==
    /\ lastSyncTs' = [lastSyncTs EXCEPT ![i] = touchLocalData(now, lastSyncTs[i])]
    /\ SyncData(i, config[i], lastSyncTs'[i], "syncing")

addInventoryItem(i, x, now) ==
    /\ inventory' = [inventory EXCEPT ![i] = @ \cup {x}]
    /\ invView' = [invView EXCEPT ![i] = inventory'[i]]
    /\ TouchAndSync(i, now)
    /\ UNCHANGED <<estimates, estView, config, STORE>>

\* Faulty variant of deleteInventoryItem: the list is stored and the clock
\* ticked whether or not an item was removed.
deleteInventoryItemAlways(i, x, now) ==
    /\ inventory' = [inventory EXCEPT ![i] = @ \ {x}]
    /\ invView' = [invView EXCEPT ![i] = inventory'[i]]
    /\ TouchAndSync(i, now)
    /\ UNCHANGED <<estimates, estView, config, STORE>>

\* deleteInventoryItem (lines 996-1008).
deleteInventoryItem(i, x, now) ==
    IF x \in inventory[i]
    THEN /\ inventory' = [inventory EXCEPT ![i] = @ \ {x}]
         /\ invView' = [invView EXCEPT ![i] = inventory'[i]]
         /\ TouchAndSync(i, now)
         /\ UNCHANGED <<estimates, estView, config, STORE>>
    ELSE UNCHANGED syncVars

\* updateInventoryStock (lines 1025-1044) for adjustments on the ids S: the
\* stock of the items found changes, the ids listed do not.
updateInventoryStock(i, S, now) ==
    IF S \cap inventory[i] # {}
    THEN /\ invView' = [invView EXCEPT ![i] = inventory[i]]
         /\ TouchAndSync(i, now)
         /\ UNCHANGED <<inventory, estimates, estView, config, STORE>>
    ELSE UNCHANGED syncVars

saveEstimateRecord(i, e, now) ==
    /\ estimates' = [estimates EXCEPT ![i] = @ \cup {e}]
    /\ estView' = [estView EXCEPT ![i] = estimates'[i]]
    /\ TouchAndSync(i, now)
    /\ UNCHANGED <<inventory, invView, config, STORE>>

deleteEstimateRecord(i, e, now) ==
    IF e \in estimates[i]
    THEN /\ estimates' = [estimates EXCEPT ![i] = @ \ {e}]
         /\ estView' = [estView EXCEPT ![i] = estimates'[i]]
         /\ TouchAndSync(i, now)
         /\ UNCHANGED <<inventory, invView, config, STORE>>
    ELSE UNCHANGED syncVars

\* importBackup (lines 1195-1207) on a file that holds two arrays: both lists
\* are replaced, both listeners are called, then touchLocalData() and
\* syncData(), with no status notified in between.
importBackup(i, inv, est, now) ==
    /\ inventory' = [inventory EXCEPT ![i] = inv]
    /\ estimates' = [estimates EXCEPT ![i] = est]
    /\ invView' = [invView EXCEPT ![i] = inv]
    /\ estView' = [estView EXCEPT ![i] = est]
    /\ lastSyncTs' = [lastSyncTs EXCEPT ![i] = touchLocalData(now, lastSyncTs[i])]
    /\ SyncData(i, config[i], lastSyncTs'[i], status[i])
    /\ UNCHANGED <<config, STORE>>

\* ------------------------------------------------------------ triggers
\* setCloudConfig (lines 727-737): store the configuration, startAutoSync(),
\* syncData().
setCloudConfig(i) ==
    /\ config' = [config EXCEPT ![i] = TRUE]
    /\ SyncData(i, TRUE, lastSyncTs[i], status[i])
    /\ UNCHANGED <<inventory, estimates, lastSyncTs, STORE, invView, estView>>

\* The interval callback of startAutoSync (lines 921-924).
PollTick(i) ==
    /\ config[i] /\ ~isSyncing[i]
    /\ SyncData(i, config[i], lastSyncTs[i], status[i])
    /\ UNCHANGED <<inventory, estimates, lastSyncTs, config, STORE, invView, estView>>

\* The visibilitychange and focus listeners (lines 715-723).
FocusEvent(i) ==
    /\ SyncData(i, config[i], lastSyncTs[i], status[i])
    /\ UNCHANGED <<inventory, estimates, lastSyncTs, config, STORE, invView, estView>>

\* The spinner timer of syncData (line 760), which its finally block clears:
\* it fires while the invocation in slot s is pending.
SpinnerFires(i, s) ==
    /\ s \in SyncSlots
    /\ tasks[i][s].pc # "idle"
    /\ status[i] # "syncing"
    /\ status' = [status EXCEPT ![i] = "syncing"]
    /\ UNCHANGED <<inventory, estimates, lastSyncTs, config, STORE, isSyncing,
                   tasks, invView, estView>>

\* ---------------------------------------------------------- the worker
\* worker.js GET (lines 69-81): the stored body, or the default envelope.
WorkerGetPayload(store) == IF store = <<>> THEN DefaultEnvelope ELSE store[1]

\* worker.js PUT (lines 84-98): env.STORE.put(KEY, bodyText).
WorkerPutStore(store, body) == <<body>>

\* The worker handles the GET of the invocation in slot s of device i.
WorkerGet(i, s) ==
    /\ tasks[i][s].pc = "get"
    /\ tasks' = [tasks EXCEPT ![i][s].pc = "getResp",
                              ![i][s].env = WorkerGetPayload(STORE)]
    /\ UNCHANGED <<inventory, estimates, lastSyncTs, config, STORE, isSyncing,
                   status, invView, estView>>

\* The worker handles the PUT of the invocation in slot s of device i.
WorkerPut(i, s) ==
    /\ tasks[i][s].pc = "put"
    /\ STORE' = WorkerPutStore(STORE, tasks[i][s].env)
    /\ tasks' = [tasks EXCEPT ![i][s] = [IdleTask EXCEPT !.pc = "putResp"]]
    /\ UNCHANGED <<inventory, estimates, lastSyncTs, config, isSyncing,
                   status, invView, estView>>

\* ------------------------------------------- syncData, after the GET
\* Faulty variant of applyRemoteData: the pulled lists are merged into the
\* local ones.
applyRemoteDataMerge(i, data) ==
    /\ inventory' = [inventory EXCEPT ![i] = @ \cup data.inventory]
    /\ estimates' = [estimates EXCEPT ![i] = @ \cup data.estimates]
    /\ lastSyncTs' = [lastSyncTs EXCEPT ![i] = toString(data.timestamp)]
    /\ invView' = [invView EXCEPT ![i] = inventory'[i]]
    /\ estView' = [estView EXCEPT ![i] = estimates'[i]]

\* Faulty variant of applyRemoteData: the pulled timestamp is not stored.
applyRemoteDataNoClock(i, data) ==
    /\ inventory' = [inventory EXCEPT ![i] = data.inventory]
    /\ estimates' = [estimates EXCEPT ![i] = data.estimates]
    /\ invView' = [invView EXCEPT ![i] = data.inventory]
    /\ estView' = [estView EXCEPT ![i] = data.estimates]
    /\ UNCHANGED lastSyncTs

\* applyRemoteData (lines 847-854).
applyRemoteData(i, data) ==
    /\ inventory' = [inventory EXCEPT ![i] = data.inventory]
    /\ estimates' = [estimates EXCEPT ![i] = data.estimates]
    /\ lastSyncTs' = [lastSyncTs EXCEPT ![i] = toString(data.timestamp)]
    /\ invView' = [invView EXCEPT ![i] = data.inventory]
    /\ estView' = [estView EXCEPT ![i] = data.estimates]

\* Faulty variant of PushPayload: the body is stamped with Date.now().
PushPayloadNow(i, now) == Envelope(inventory[i], estimates[i], now)

\* pushToCloud (lines 857-861): the body of the PUT; now is Date.now().
PushPayload(i, now) ==
    Envelope(inventory[i], estimates[i],
             IF lastSyncTs[i] = <<>> THEN now ELSE ParseInt(lastSyncTs[i]))

\* The readings of Date.now() that pushToCloud can use: it reads the wall
\* clock only when STORAGE_KEY_LAST_SYNC is absent (line 859).
PushNows(i) == IF lastSyncTs[i] = <<>> THEN 0..MaxClock ELSE {0}

\* Faulty variant of Compare: equal timestamps count as a newer local store.
CompareNoEqual(localTimestamp, remoteTimestamp) ==
    IF remoteTimestamp > localTimestamp THEN "PULL" ELSE "PUSH"

\* lines 818-826: the decision on the fetched timestamp.
Compare(localTimestamp, remoteTimestamp) ==
    IF remoteTimestamp > localTimestamp THEN "PULL"
    ELSE IF localTimestamp > remoteTimestamp THEN "PUSH"
    ELSE "EQUAL"

\* lines 815-826 on a parsed body whose timestamp field reads remoteTimestamp.
SyncDecide(i, s, data, remoteTimestamp, now) ==
    LET c == Compare(tasks[i][s].lts, remoteTimestamp) IN
    IF c = "PULL"
    THEN /\ applyRemoteData(i, data)
         /\ status' = [status EXCEPT ![i] = "synced"]
         /\ SyncFinally(i, s)
    ELSE IF c = "PUSH"
    THEN /\ tasks' = [tasks EXCEPT ![i][s] =
                            [pc |-> "put", lts |-> 0, env |-> PushPayload(i, now)]]
         /\ UNCHANGED <<inventory, estimates, lastSyncTs, invView, estView,
                        isSyncing, status>>
    ELSE /\ status' = [status EXCEPT ![i] = "synced"]
         /\ SyncFinally(i, s)
         /\ UNCHANGED <<inventory, estimates, lastSyncTs, invView, estView>>

\* The GET answered 200 with the worker's payload (lines 786-826).
SyncGetOk(i, s, now) ==
    /\ s \in SyncSlots
    /\ tasks[i][s].pc = "getResp"
    /\ SyncDecide(i, s, tasks[i][s].env, tasks[i][s].env.timestamp, now)
    /\ UNCHANGED <<config, STORE>>

\* The GET answered 200 with a JSON object that has none of the fields of a
\* SyncPayload and is not the health check: payload.timestamp || 0 is 0, and
\* applyRemoteData would store data.inventory || [], data.estimates || [].
SyncGetOther(i, s, now) ==
    /\ s \in SyncSlots
    /\ tasks[i][s].pc = "get"
    /\ SyncDecide(i, s, DefaultEnvelope, 0, now)
    /\ UNCHANGED <<config, STORE>>

\* Faulty variant of SyncCatch: the failure is swallowed, no status is notified.
SyncCatchSilent(i, s) ==
    /\ SyncFinally(i, s)
    /\ UNCHANGED <<inventory, estimates, lastSyncTs, config, STORE, invView,
                   estView, status>>

\* The catch and finally blocks of syncData (lines 832-844).
SyncCatch(i, s) ==
    /\ status' = [status EXCEPT ![i] = "error"]
    /\ SyncFinally(i, s)
    /\ UNCHANGED <<inventory, estimates, lastSyncTs, config, STORE, invView, estView>>

\* The GET failed: fetch rejected (network, CORS), the 8 s timer aborted it,
\* the content type was text/html, the status was not ok, the body was the
\* health check or was not JSON (lines 773-813, 827-830).
SyncGetError(i, s) ==
    /\ s \in SyncSlots
    /\ tasks[i][s].pc \in {"get", "getResp"}
    /\ SyncCatch(i, s)

\* The PUT was acknowledged (lines 873, 823).
SyncPutAck(i, s) ==
    /\ s \in SyncSlots
    /\ tasks[i][s].pc = "putResp"
    /\ status' = [status EXCEPT ![i] = "synced"]
    /\ SyncFinally(i, s)
    /\ UNCHANGED <<inventory, estimates, lastSyncTs, config, STORE, invView, estView>>

\* The PUT failed: fetch rejected, before or after the worker stored the
\* body, or the status was not ok (lines 864-875).
SyncPutError(i, s) ==
    /\ s \in SyncSlots
    /\ tasks[i][s].pc \in {"put", "putResp"}
    /\ SyncCatch(i, s)

\* A request that has no timer (the PUT of pushToCloud, the GET of
\* forceDownloadFromCloud) gets no response and no rejection: its await
\* never resumes.
RequestHangs(i, s) ==
    /\ \/ tasks[i][s].pc \in {"put", "putResp"}
       \/ s \in ForceSlots /\ tasks[i][s].pc \in {"get", "getResp"}
    /\ tasks' = [tasks EXCEPT ![i][s] = [IdleTask EXCEPT !.pc = "hung"]]
    /\ UNCHANGED <<inventory, estimates, lastSyncTs, config, STORE, isSyncing,
                   status, invView, estView>>

\* -------------------------------------------------------- force actions
\* forceUploadToCloud (lines 880-888), to the await of the PUT.
forceUploadToCloud(i, now) ==
    /\ config[i]
    /\ tasks[i]["f"].pc = "idle"
    /\ lastSyncTs' = [lastSyncTs EXCEPT ![i] = touchLocalData(now, lastSyncTs[i])]
    /\ status' = [status EXCEPT ![i] = "syncing"]
    /\ tasks' = [tasks EXCEPT ![i]["f"] =
                    [pc |-> "put", lts |-> 0,
                     env |-> Envelope(inventory[i], estimates[i],
                                      ParseInt(lastSyncTs'[i]))]]
    /\ UNCHANGED <<inventory, estimates, config, STORE, isSyncing, invView, estView>>

\* forceUploadToCloud after the PUT was acknowledged (line 887).
ForcePutAck(i) ==
    /\ tasks[i]["f"].pc = "putResp"
    /\ status' = [status EXCEPT ![i] = "synced"]
    /\ tasks' = [tasks EXCEPT ![i]["f"] = IdleTask]
    /\ UNCHANGED <<inventory, estimates, lastSyncTs, config, STORE, isSyncing,
                   invView, estView>>

\* forceDownloadFromCloud (lines 890-904), to the await of the GET.
forceDownloadFromCloud(i) ==
    /\ config[i]
    /\ tasks[i]["f"].pc = "idle"
    /\ status' = [status EXCEPT ![i] = "syncing"]
    /\ tasks' = [tasks EXCEPT ![i]["f"] =
                    [pc |-> "get", lts |-> 0, env |-> DefaultEnvelope]]
    /\ UNCHANGED <<inventory, estimates, lastSyncTs, config, STORE, isSyncing,
                   invView, estView>>

\* Faulty variant of ForceGetOk: the envelope is applied only when its
\* timestamp is above the local clock.
ForceGetOkIfNewer(i) ==
    /\ tasks[i]["f"].pc = "getResp"
    /\ IF tasks[i]["f"].env.timestamp > StoredTS(lastSyncTs[i])
       THEN applyRemoteData(i, tasks[i]["f"].env)
       ELSE UNCHANGED <<inventory, estimates, lastSyncTs, invView, estView>>
    /\ status' = [status EXCEPT ![i] = "synced"]
    /\ tasks' = [tasks EXCEPT ![i]["f"] = IdleTask]
    /\ UNCHANGED <<config, STORE, isSyncing>>

\* forceDownloadFromCloud after the GET answered 200 with the worker's
\* payload (lines 906-914).
ForceGetOk(i) ==
    /\ tasks[i]["f"].pc = "getResp"
    /\ applyRemoteData(i, tasks[i]["f"].env)
    /\ status' = [status EXCEPT ![i] = "synced"]
    /\ tasks' = [tasks EXCEPT ![i]["f"] = IdleTask]
    /\ UNCHANGED <<config, STORE, isSyncing>>

\* A force action whose request failed: the error is thrown to the caller
\* (lines 873-875, 906, 909-911); no status is notified.
ForceError(i) ==
    /\ tasks[i]["f"].pc \in {"get", "getResp", "put", "putResp"}
    /\ tasks' = [tasks EXCEPT ![i]["f"] = IdleTask]
    /\ UNCHANGED <<inventory, estimates, lastSyncTs, config, STORE, isSyncing,
                   status, invView, estView>>

\* --------------------------------------------------------------- restart
\* The page is reloaded: the module state is dropped (isSyncing, the pending
\* invocations and their timers), localStorage stays.  A PUT that was sent
\* and not yet handled may still reach the worker.  The application mounts
\* again: subscribeToInventory, subscribeToEstimates (lines 941-951) and
\* onSyncStatusChange (lines 929-939), which calls syncData() when configured.
Restart(i) ==
    /\ \E st \in {STORE} \cup
                 {WorkerPutStore(STORE, tasks[i][s].env) :
                     s \in {x \in Slots : tasks[i][x].pc = "put"}} : STORE' = st
    /\ invView' = [invView EXCEPT ![i] = inventory[i]]
    /\ estView' = [estView EXCEPT ![i] = estimates[i]]
    /\ status' = [status EXCEPT ![i] = "offline"]
    /\ isSyncing' = [isSyncing EXCEPT ![i] = config[i]]
    /\ tasks' = [tasks EXCEPT ![i] =
                    [s \in Slots |->
                        IF config[i] /\ s = "s1"
                        THEN [pc |-> "get", lts |-> StoredTS(lastSyncTs[i]),
                              env |-> DefaultEnvelope]
                        ELSE IdleTask]]
    /\ UNCHANGED <<inventory, estimates, lastSyncTs, config>>

\* ------------------------------------------------------ specifications
\* The model stops ticking a clock that would pass MaxClock.
ClockCap(i, now) == TouchNext(now, StoredTS(lastSyncTs[i])) <= MaxClock

Mutation(i) ==
    \E now \in 0..MaxClock :
      /\ ClockCap(i, now)
      /\
        \/ \E x \in Items : addInventoryItem(i, x, now)
        \/ \E x \in Items : deleteInventoryItem(i, x, now)
        \/ \E e \in Ests : saveEstimateRecord(i, e, now)
        \/ \E e \in Ests : deleteEstimateRecord(i, e, now)

Import(i) ==
    \E now \in 0..MaxClock, inv \in SUBSET Items, est \in SUBSET Ests :
        ClockCap(i, now) /\ importBackup(i, inv, est, now)

Trigger(i) == setCloudConfig(i) \/ PollTick(i) \/ FocusEvent(i)

Worker(i) == \E s \in Slots : WorkerGet(i, s) \/ WorkerPut(i, s)

SyncResume(i) ==
    \E s \in SyncSlots :
        \/ \E now \in PushNows(i) : SyncGetOk(i, s, now)
        \/ \E now \in PushNows(i) : SyncGetOther(i, s, now)
        \/ SyncPutAck(i, s)

SyncFails(i) == \E s \in SyncSlots : SyncGetError(i, s) \/ SyncPutError(i, s)

Spinner(i) == \E s \in SyncSlots : SpinnerFires(i, s)

Hang(i) == \E s \in Slots : RequestHangs(i, s)

ForceStart(i) ==
    \/ \E now \in 0..MaxClock : ClockCap(i, now) /\ forceUploadToCloud(i, now)
    \/ forceDownloadFromCloud(i)

ForceResume(i) == ForcePutAck(i) \/ ForceGetOk(i)

\* Another device that uses the same token: the worker handles one of its
\* PUTs.  Its body is what pushToCloud builds there: any lists, and a clock
\* that has been ticked.
PeerPut ==
    /\ \E inv \in SUBSET Items, est \in SUBSET Ests, ts \in 1..MaxClock :
          STORE' = WorkerPutStore(STORE, Envelope(inv, est, ts))
    /\ UNCHANGED <<inventory, estimates, lastSyncTs, config, isSyncing, tasks,
                   status, invView, estView>>

\* Everything device i does.
Device(i) ==
    \/ Mutation(i)
    \/ Trigger(i)
    \/ Worker(i)
    \/ SyncResume(i)
    \/ SyncFails(i)
    \/ Spinner(i)
    \/ Hang(i)
    \/ Restart(i)

\* The manual overrides of device i.
DeviceForce(i) == ForceStart(i) \/ ForceResume(i) \/ ForceError(i)

\* Spec: the reconcile engine of one device, the other devices seen through
\* the worker.  SpecForce: the same with the manual overrides.
Dev == "d1"

Next == (Device(Dev) \/ Import(Dev) \/ PeerPut) /\ UNCHANGED hist

Spec == Init /\ [][Next]_vars

NextForce == (Device(Dev) \/ DeviceForce(Dev) \/ PeerPut) /\ UNCHANGED hist

SpecForce == Init /\ [][NextForce]_vars

\* What the scheduling guarantees of a reconcile of Dev: the worker handles a
\* request that waits for it, and the invocation resumes on a response that
\* waits for it or on a failure (for the GET, at the latest when the 8 s
\* timer aborts it, line 773).
SyncProgress(s) ==
    /\ \/ WorkerGet(Dev, s)
       \/ WorkerPut(Dev, s)
       \/ \E now \in PushNows(Dev) : SyncGetOk(Dev, s, now)
       \/ SyncGetError(Dev, s)
       \/ SyncPutAck(Dev, s)
       \/ SyncPutError(Dev, s)
    /\ UNCHANGED hist

FairSpec == Spec /\ \A s \in SyncSlots : WF_vars(SyncProgress(s))

\* SpecClock: the clock of one device that is not configured (local mode).
\* Every mutation calls touchLocalData; ticks records each call: the reading
\* of Date.now(), the clock stored before, the value returned and the clock
\* stored after.  The wall clock is any reading at each call.
TickRecord(now) ==
    [now |-> now,
     stored |-> StoredTS(lastSyncTs[Dev]),
     ret |-> TouchNext(now, StoredTS(lastSyncTs[Dev])),
     persisted |-> StoredTS(lastSyncTs'[Dev])]

ClockTick ==
    /\ Len(ticks) < MaxTicks
    /\ \E now \in 0..MaxWall :
          /\ \/ \E x \in Items : addInventoryItem(Dev, x, now)
             \/ \E e \in Ests : saveEstimateRecord(Dev, e, now)
          /\ ticks' = Append(ticks, TickRecord(now))
          /\ UNCHANGED histNoTicks

ClockRestart == Restart(Dev) /\ UNCHANGED hist

NextClock == ClockTick \/ ClockRestart

SpecClock == Init /\ [][NextClock]_vars

\* SpecPair: two configured devices and the worker; the reconcile protocol
\* alone (mutations, poll ticks, the two requests of syncData, failures).
InitPair ==
    /\ inventory = [i \in Inst |-> {}]
    /\ estimates = [i \in Inst |-> {}]
    /\ lastSyncTs = [i \in Inst |-> <<>>]
    /\ config = [i \in Inst |-> TRUE]
    /\ STORE = <<>>
    /\ isSyncing = [i \in Inst |-> FALSE]
    /\ tasks = [i \in Inst |-> [s \in Slots |-> IdleTask]]
    /\ status = [i \in Inst |-> "synced"]
    /\ invView = [i \in Inst |-> {}]
    /\ estView = [i \in Inst |-> {}]
    /\ InitHist

PairPoll(i) == PollTick(i) /\ UNCHANGED hist

PairProgress(i) ==
    /\ \E s \in SyncSlots :
          \/ WorkerGet(i, s)
          \/ WorkerPut(i, s)
          \/ \E now \in PushNows(i) : SyncGetOk(i, s, now)
          \/ SyncPutAck(i, s)
    /\ UNCHANGED hist

PairMutation(i) == Mutation(i) /\ UNCHANGED hist

PairFails(i) == SyncFails(i) /\ UNCHANGED hist

NextPair ==
    \E i \in Inst : PairMutation(i) \/ PairPoll(i) \/ PairProgress(i) \/ PairFails(i)

SpecPair == InitPair /\ [][NextPair]_vars

\* The interval timer keeps firing and requests keep being handled.
FairPair ==
    SpecPair /\ \A i \in Inst : WF_vars(PairPoll(i)) /\ WF_vars(PairProgress(i))

\* SpecTwice: after any behaviour of Spec, syncData() is called twice on Dev
\* while nothing else happens: no mutation, no write by another device, no
\* reload; the worker answers every request or the request fails.  log
\* records the calls, the requests issued ("GET", "PUT"), the pulls applied,
\* the failures and the end of each invocation.
Calls == Cardinality({k \in 1..Len(log) : log[k] = "call"})

TwiceCall ==
    /\ Calls < 2
    /\ log = <<>> => ~isSyncing[Dev]
    /\ FocusEvent(Dev)
    /\ log' = log \o (IF \E s \in SyncSlots : tasks'[Dev][s].pc = "get"
                                              /\ tasks[Dev][s].pc = "idle"
                      THEN <<"call", "GET">> ELSE <<"call">>)
    /\ UNCHANGED histNoLog

TwiceWorker ==
    /\ log # <<>>
    /\ \E s \in SyncSlots : WorkerGet(Dev, s) \/ WorkerPut(Dev, s)
    /\ UNCHANGED hist

TwiceResume ==
    /\ log # <<>>
    /\ \E s \in SyncSlots :
          \/ /\ \E now \in PushNows(Dev) : SyncGetOk(Dev, s, now)
             /\ LET c == Compare(tasks[Dev][s].lts, tasks[Dev][s].env.timestamp)
                IN log' = log \o (IF c = "PULL" THEN <<"pull", "end">>
                                  ELSE IF c = "PUSH" THEN <<"PUT">>
                                  ELSE <<"end">>)
          \/ SyncPutAck(Dev, s) /\ log' = log \o <<"end">>
    /\ UNCHANGED histNoLog

TwiceFails ==
    /\ log # <<>>
    /\ SyncFails(Dev)
    /\ log' = log \o <<"error", "end">>
    /\ UNCHANGED histNoLog

TwicePrefix == log = <<>> /\ Next

NextTwice == TwicePrefix \/ TwiceCall \/ TwiceWorker \/ TwiceResume \/ TwiceFails

SpecTwice == Init /\ [][NextTwice]_vars

\* SpecForcePair: SpecPair, and the first device force-uploads.  log holds
\* the body of its last force upload that the worker stored, and whether the
\* upload has been acknowledged to it.
Forcer == "d1"
Other == "d2"

PairForceStart ==
    /\ \E now \in 0..MaxClock :
          ClockCap(Forcer, now) /\ forceUploadToCloud(Forcer, now)
    /\ UNCHANGED hist

PairForceWorker ==
    /\ WorkerPut(Forcer, "f")
    /\ log' = <<[body |-> tasks[Forcer]["f"].env, acked |-> FALSE]>>
    /\ UNCHANGED histNoLog

PairForceAck ==
    /\ ForcePutAck(Forcer)
    /\ log' = <<[log[1] EXCEPT !.acked = TRUE]>>
    /\ UNCHANGED histNoLog

NextForcePair == NextPair \/ PairForceStart \/ PairForceWorker \/ PairForceAck

SpecForcePair == InitPair /\ [][NextForcePair]_vars

\* SpecRetry: after any behaviour of Spec the disturbances stop (log becomes
\* <<"quiet">>): from then on there is no mutation, no write by another
\* device, no reload and no failure; the interval timer fires and the worker
\* answers every request.
Quiet == log = <<"quiet">>

Quiesce ==
    /\ log = <<>>
    /\ log' = <<"quiet">>
    /\ UNCHANGED <<syncVars, histNoLog>>

RetryPrefix == log = <<>> /\ Next

RetryPoll == Quiet /\ PollTick(Dev) /\ UNCHANGED hist

RetryProgress ==
    /\ Quiet
    /\ \E s \in SyncSlots :
          \/ WorkerGet(Dev, s)
          \/ WorkerPut(Dev, s)
          \/ \E now \in PushNows(Dev) : SyncGetOk(Dev, s, now)
          \/ SyncPutAck(Dev, s)
    /\ UNCHANGED hist

NextRetry == RetryPrefix \/ Quiesce \/ RetryPoll \/ RetryProgress

SpecRetry == Init /\ [][NextRetry]_vars

\* The interval timer keeps firing and requests keep being handled.
FairRetry == SpecRetry /\ WF_vars(RetryPoll) /\ WF_vars(RetryProgress)

\* SpecRace: the behaviours of Spec without reloads, with a record in log of
\* what the mutations made while a reconcile of Dev awaits its fetch have
\* done: the ids they added and have not removed since, the ids they removed
\* and have not added since, and the clock value the last of them ticked to.
\* The record follows the later mutations made before the reconcile is over,
\* and is dropped when it is over.
AwaitingFetch == \E s \in SyncSlots : tasks[Dev][s].pc \in {"get", "getResp"}

RaceRecord ==
    LET old == IF log = <<>>
               THEN [addInv |-> {}, delInv |-> {}, addEst |-> {}, delEst |-> {},
                     tick |-> 0]
               ELSE log[1]
        addedInv == inventory'[Dev] \ inventory[Dev]
        removedInv == inventory[Dev] \ inventory'[Dev]
        addedEst == estimates'[Dev] \ estimates[Dev]
        removedEst == estimates[Dev] \ estimates'[Dev]
    IN [addInv |-> (old.addInv \ removedInv) \cup addedInv,
        delInv |-> (old.delInv \ addedInv) \cup removedInv,
        addEst |-> (old.addEst \ removedEst) \cup addedEst,
        delEst |-> (old.delEst \ addedEst) \cup removedEst,
        tick |-> StoredTS(lastSyncTs'[Dev])]

RaceMutation ==
    /\ Mutation(Dev) \/ Import(Dev)
    /\ log' = IF (AwaitingFetch \/ log # <<>>)
                    /\ lastSyncTs'[Dev] # lastSyncTs[Dev]
              THEN <<RaceRecord>> ELSE log
    /\ UNCHANGED histNoLog

RaceStep ==
    /\ \/ Trigger(Dev)
       \/ Worker(Dev)
       \/ SyncResume(Dev)
       \/ SyncFails(Dev)
       \/ Spinner(Dev)
       \/ Hang(Dev)
       \/ PeerPut
    /\ log' = IF \A s \in SyncSlots : tasks'[Dev][s].pc = "idle"
              THEN <<>> ELSE log
    /\ UNCHANGED histNoLog

NextRace == RaceMutation \/ RaceStep

SpecRace == Init /\ [][NextRace]_vars

\* SpecSolo: SpecRace with no other device writing to the remote: the only
\* PUTs the worker handles are those of Dev.
SoloStep ==
    /\ \/ Trigger(Dev)
       \/ Worker(Dev)
       \/ SyncResume(Dev)
       \/ SyncFails(Dev)
       \/ Spinner(Dev)
       \/ Hang(Dev)
    /\ log' = IF \A s \in SyncSlots : tasks'[Dev][s].pc = "idle"
              THEN <<>> ELSE log
    /\ UNCHANGED histNoLog

NextSolo == RaceMutation \/ SoloStep

SpecSolo == Init /\ [][NextSolo]_vars

\* SpecCrash: after any behaviour of Spec the process of Dev dies between two
\* localStorage.setItem calls of one operation and the page is loaded again
\* (log becomes <<"mutation">> or <<"pull">>, after the operation that was
\* cut).  From then on there is no mutation and no write by another device:
\* the interval timer fires, the worker answers, a request may fail.  The
\* first reconcile that ends with notifyStatus('synced') is recorded in log.
\*
\* The page load after the crash, on the local store the crash left: what
\* Restart does (module state dropped, listeners subscribed, syncData()).
RestartOn(i, inv, est) ==
    /\ inventory' = [inventory EXCEPT ![i] = inv]
    /\ estimates' = [estimates EXCEPT ![i] = est]
    /\ \E st \in {STORE} \cup
                 {WorkerPutStore(STORE, tasks[i][s].env) :
                     s \in {x \in Slots : tasks[i][x].pc = "put"}} : STORE' = st
    /\ invView' = [invView EXCEPT ![i] = inv]
    /\ estView' = [estView EXCEPT ![i] = est]
    /\ status' = [status EXCEPT ![i] = "offline"]
    /\ isSyncing' = [isSyncing EXCEPT ![i] = config[i]]
    /\ tasks' = [tasks EXCEPT ![i] =
                    [s \in Slots |->
                        IF config[i] /\ s = "s1"
                        THEN [pc |-> "get", lts |-> StoredTS(lastSyncTs[i]),
                              env |-> DefaultEnvelope]
                        ELSE IdleTask]]
    /\ UNCHANGED <<lastSyncTs, config>>

\* A mutation is cut after its data write (e.g. line 968, line 1053) and
\* before touchLocalData() (line 971, line 1056): the list is stored, the
\* clock is not ticked.
CrashInMutation(i) ==
    \/ \E x \in Items : RestartOn(i, inventory[i] \cup {x}, estimates[i])
    \/ \E x \in inventory[i] : RestartOn(i, inventory[i] \ {x}, estimates[i])
    \/ \E e \in Ests : RestartOn(i, inventory[i], estimates[i] \cup {e})
    \/ \E e \in estimates[i] : RestartOn(i, inventory[i], estimates[i] \ {e})

\* applyRemoteData (lines 847-854) is cut after its first or after its
\* second write: the clock is not yet the envelope's.
CrashInPull(i) ==
    \E s \in SyncSlots :
        /\ tasks[i][s].pc = "getResp"
        /\ Compare(tasks[i][s].lts, tasks[i][s].env.timestamp) = "PULL"
        /\ \/ RestartOn(i, tasks[i][s].env.inventory, estimates[i])
           \/ RestartOn(i, tasks[i][s].env.inventory, tasks[i][s].env.estimates)

CrashPrefix == log = <<>> /\ Next

CrashMutation ==
    /\ log = <<>>
    /\ CrashInMutation(Dev)
    /\ log' = <<"mutation">>
    /\ UNCHANGED histNoLog

CrashPull ==
    /\ log = <<>>
    /\ CrashInPull(Dev)
    /\ log' = <<"pull">>
    /\ UNCHANGED histNoLog

CrashRecovery ==
    /\ Len(log) = 1
    /\ \/ PollTick(Dev)
       \/ \E s \in SyncSlots :
              \/ WorkerGet(Dev, s)
              \/ WorkerPut(Dev, s)
              \/ \E now \in PushNows(Dev) : SyncGetOk(Dev, s, now)
              \/ SyncPutAck(Dev, s)
       \/ SyncFails(Dev)
    /\ log' = IF /\ \E s \in SyncSlots : tasks[Dev][s].pc # "idle"
                 /\ \A s \in SyncSlots : tasks'[Dev][s].pc = "idle"
                 /\ status'[Dev] = "synced"
              THEN log \o <<"synced">> ELSE log
    /\ UNCHANGED histNoLog

NextCrash == CrashPrefix \/ CrashMutation \/ CrashPull \/ CrashRecovery

SpecCrash == Init /\ [][NextCrash]_vars

\* SpecTabs: the two engine instances are two tabs of one browser.  They share
\* one localStorage, the entries at Dev of inventory, estimates, lastSyncTs
\* and config; each tab has its own listeners, isSyncing, status and
\* invocations.  When a tab changes the value of a key, the browser queues a
\* storage event for the other tab.
OtherTab(t) == CHOOSE u \in Inst : u # t

\* The keys whose stored value the step changes.
KeysWritten ==
    (IF inventory'[Dev] # inventory[Dev] THEN {"inv"} ELSE {})
        \cup (IF estimates'[Dev] # estimates[Dev] THEN {"est"} ELSE {})

StorageDispatch(t) ==
    events' = [events EXCEPT ![OtherTab(t)] = @ \cup KeysWritten]

\* The tail of a mutation made in tab t (e.g. lines 971-973).
TabTouchAndSync(t, now) ==
    /\ lastSyncTs' = [lastSyncTs EXCEPT ![Dev] = touchLocalData(now, lastSyncTs[Dev])]
    /\ SyncData(t, config[Dev], lastSyncTs'[Dev], "syncing")

\* addInventoryItem (lines 953-974) in tab t.
TabAddInventoryItem(t, x, now) ==
    /\ inventory' = [inventory EXCEPT ![Dev] = @ \cup {x}]
    /\ invView' = [invView EXCEPT ![t] = inventory'[Dev]]
    /\ TabTouchAndSync(t, now)
    /\ UNCHANGED <<estimates, estView, config, STORE>>
    /\ StorageDispatch(t)

\* deleteInventoryItem (lines 996-1008) in tab t.
TabDeleteInventoryItem(t, x, now) ==
    /\ x \in inventory[Dev]
    /\ inventory' = [inventory EXCEPT ![Dev] = @ \ {x}]
    /\ invView' = [invView EXCEPT ![t] = inventory'[Dev]]
    /\ TabTouchAndSync(t, now)
    /\ UNCHANGED <<estimates, estView, config, STORE>>
    /\ StorageDispatch(t)

\* saveEstimateRecord (lines 1046-1059) in tab t.
TabSaveEstimateRecord(t, e, now) ==
    /\ estimates' = [estimates EXCEPT ![Dev] = @ \cup {e}]
    /\ estView' = [estView EXCEPT ![t] = estimates'[Dev]]
    /\ TabTouchAndSync(t, now)
    /\ UNCHANGED <<inventory, invView, config, STORE>>
    /\ StorageDispatch(t)

\* applyRemoteData (lines 847-854) in tab t.
TabApplyRemoteData(t, data) ==
    /\ inventory' = [inventory EXCEPT ![Dev] = data.inventory]
    /\ estimates' = [estimates EXCEPT ![Dev] = data.estimates]
    /\ lastSyncTs' = [lastSyncTs EXCEPT ![Dev] = toString(data.timestamp)]
    /\ invView' = [invView EXCEPT ![t] = data.inventory]
    /\ estView' = [estView EXCEPT ![t] = data.estimates]
    /\ StorageDispatch(t)

\* syncData of tab t after its GET answered 200 with the worker's payload
\* (lines 786-826).
TabSyncGetOk(t, s, now) ==
    /\ tasks[t][s].pc = "getResp"
    /\ LET data == tasks[t][s].env
           c == Compare(tasks[t][s].lts, data.timestamp)
       IN IF c = "PULL"
          THEN /\ TabApplyRemoteData(t, data)
               /\ status' = [status EXCEPT ![t] = "synced"]
               /\ SyncFinally(t, s)
          ELSE IF c = "PUSH"
          THEN /\ tasks' = [tasks EXCEPT ![t][s] =
                               [pc |-> "put", lts |-> 0, env |-> PushPayload(Dev, now)]]
               /\ UNCHANGED <<inventory, estimates, lastSyncTs, invView, estView,
                              isSyncing, status, events>>
          ELSE /\ status' = [status EXCEPT ![t] = "synced"]
               /\ SyncFinally(t, s)
               /\ UNCHANGED <<inventory, estimates, lastSyncTs, invView, estView,
                              events>>
    /\ UNCHANGED <<config, STORE>>

\* Faulty variant of StorageListener: the event is consumed and no listener is
\* called.
StorageListenerDeaf(t, key) ==
    UNCHANGED <<invView, estView>>

\* The storage listener (lines 701-712) of tab t on an event for key.
StorageListener(t, key) ==
    /\ invView' = IF key = "inv" THEN [invView EXCEPT ![t] = inventory[Dev]]
                  ELSE invView
    /\ estView' = IF key = "est" THEN [estView EXCEPT ![t] = estimates[Dev]]
                  ELSE estView

TabMutation(t) ==
    /\ \E now \in 0..MaxClock :
          /\ ClockCap(Dev, now)
          /\ \/ \E x \in Items : TabAddInventoryItem(t, x, now)
             \/ \E x \in Items : TabDeleteInventoryItem(t, x, now)
             \/ \E e \in Ests : TabSaveEstimateRecord(t, e, now)
    /\ UNCHANGED <<ticks, log, book, call, editor>>

TabPoll(t) ==
    /\ ~isSyncing[t]
    /\ SyncData(t, config[Dev], lastSyncTs[Dev], status[t])
    /\ UNCHANGED <<inventory, estimates, lastSyncTs, config, STORE, invView, estView>>
    /\ UNCHANGED hist

TabWorker(t) ==
    /\ \E s \in SyncSlots : WorkerGet(t, s) \/ WorkerPut(t, s)
    /\ UNCHANGED hist

TabResume(t) ==
    \E s \in SyncSlots :
        \/ /\ \E now \in PushNows(Dev) : TabSyncGetOk(t, s, now)
           /\ UNCHANGED <<ticks, log, book, call, editor>>
        \/ SyncPutAck(t, s) /\ UNCHANGED hist

TabFails(t) == SyncFails(t) /\ UNCHANGED hist

TabStorageEvent(t) ==
    /\ \E key \in events[t] :
          /\ StorageListener(t, key)
          /\ events' = [events EXCEPT ![t] = @ \ {key}]
    /\ UNCHANGED <<inventory, estimates, lastSyncTs, config, STORE, isSyncing,
                   tasks, status, ticks, log, book, call,
                   editor>>

TabPeerPut == PeerPut /\ UNCHANGED hist

\* The first tab mutates and reconciles; the second tab, whose listeners are
\* subscribed, starts nothing of its own in the window observed.
NextTabs ==
    \/ TabMutation(Dev)
    \/ TabPoll(Dev)
    \/ TabWorker(Dev)
    \/ TabResume(Dev)
    \/ TabFails(Dev)
    \/ \E t \in Inst : TabStorageEvent(t)
    \/ TabPeerPut

SpecTabs == InitPair /\ [][NextTabs]_vars

\* ------------------------------------------------- payment allocation
\* addPaymentToEstimate (lines 1091-1179) on estimate records.  Amounts are
\* whole rupees.  A record keeps the fields the function reads or writes;
\* an optional field holds <<>> when it is absent and <<v>> when it is v.
\* The id of a payment entry (crypto.randomUUID()) and the date and the note
\* copied from the payment are left out of an entry.
EstIds == <<"INV1", "INV2", "INV3">>
\* An id no record has.
UnknownId == "INV0"

\* s.reduce((s, x) => s + x, 0)
RECURSIVE SumSeq(_)
SumSeq(s) == IF s = <<>> THEN 0 ELSE Head(s) + SumSeq(Tail(s))

Min(a, b) == IF a <= b THEN a ELSE b

\* String.prototype.toLowerCase and trim, on strings held as sequences of
\* characters.
LowerChar(c) == IF c = "A" THEN "a" ELSE IF c = "J" THEN "j" ELSE c

toLowerCase(s) == [k \in DOMAIN s |-> LowerChar(s[k])]

RECURSIVE trimStart(_)
trimStart(s) ==
    IF s # <<>> /\ Head(s) = " " THEN trimStart(Tail(s)) ELSE s

RECURSIVE trimEnd(_)
trimEnd(s) ==
    IF s # <<>> /\ s[Len(s)] = " " THEN trimEnd(SubSeq(s, 1, Len(s) - 1)) ELSE s

trim(s) == trimEnd(trimStart(s))

\* getCustKey (line 1097): '' is falsy, so an empty firm name gives the name.
getCustKey(c) ==
    trim(toLowerCase(IF c.firmName # <<>> THEN c.firmName ELSE c.name))
        \o trim(c.phone)

\* Customer profiles of the records: a firm, the same firm typed with other
\* case and spaces, and a person without a firm.
Acme == [firmName |-> <<"A">>, name |-> <<"J">>, phone |-> <<"1">>]
AcmeTyped == [firmName |-> <<" ", "a">>, name |-> <<>>, phone |-> <<"1", " ">>]
Jane == [firmName |-> <<>>, name |-> <<"J">>, phone |-> <<"1">>]
Customers == {Acme, AcmeTyped, Jane}

\* calculateDue (lines 1108-1113); a line of items is its amount
\* sellingBasic * (1 + gstPercent/100) * quantity.
calculateDue(est) ==
    LET total == SumSeq(est.items) + est.additionalCharges.adjustment
                    + est.additionalCharges.packing
                    + est.additionalCharges.shipping
        paid == IF est.paymentHistory # <<>>
                THEN SumSeq([k \in DOMAIN est.paymentHistory[1] |->
                                est.paymentHistory[1][k].amount])
                ELSE est.amountPaid
    IN [total |-> total, paid |-> paid, due |-> total - paid]

\* est.paymentHistory || []
HistoryOrEmpty(est) ==
    IF est.paymentHistory # <<>> THEN est.paymentHistory[1] ELSE <<>>

\* estimates.findIndex(e => e.id === id), 0 for -1.
findIndex(list, id) ==
    IF \E k \in DOMAIN list : list[k].id = id
    THEN CHOOSE k \in DOMAIN list :
            /\ list[k].id = id
            /\ \A j \in DOMAIN list : list[j].id = id => k <= j
    ELSE 0

\* Faulty variant of SortByDate: the indices in the order of the list.
RECURSIVE SortByDateUnsorted(_, _)
SortByDateUnsorted(list, S) ==
    IF S = {} THEN <<>>
    ELSE LET first == CHOOSE a \in S : \A b \in S : a <= b
         IN <<first>> \o SortByDateUnsorted(list, S \ {first})

\* Array.prototype.sort by ascending date (line 1103) of the indices in S;
\* the sort is stable, so equal dates keep the order of the list.
RECURSIVE SortByDate(_, _)
SortByDate(list, S) ==
    IF S = {} THEN <<>>
    ELSE LET first == CHOOSE a \in S : \A b \in S \ {a} :
                        \/ list[a].date < list[b].date
                        \/ list[a].date = list[b].date /\ a < b
         IN <<first>> \o SortByDate(list, S \ {first})

\* Faulty variant of customerEstimatesIndices: drafts are not filtered out.
customerEstimatesIndicesAnyStatus(list, targetIdx) ==
    SortByDate(list,
        {k \in DOMAIN list :
            getCustKey(list[k].customer)
                 = getCustKey(list[targetIdx].customer)})

\* customerEstimatesIndices (lines 1100-1103), as the originalIndex of each
\* copy.
customerEstimatesIndices(list, targetIdx) ==
    SortByDate(list,
        {k \in DOMAIN list :
            /\ list[k].status = "confirmed"
            /\ getCustKey(list[k].customer)
                 = getCustKey(list[targetIdx].customer)})

\* The running state of one call: the list being edited, remainingAmount and
\* the entries created so far, in the order of their creation.
Posting(idx, pay, note) == [idx |-> idx, amount |-> pay, note |-> note]

\* Lines 1115-1133.
PayTarget(st, targetIdx, now) ==
    LET est == st.estimates[targetIdx]
        targetStats == calculateDue(est)
        pay == Min(targetStats.due, st.remainingAmount)
        newEntry == [amount |-> pay, note |-> "Payment"]
        withEntry == [est EXCEPT !.paymentHistory =
                                    <<Append(HistoryOrEmpty(est), newEntry)>>]
        newStats == calculateDue(withEntry)
    IN IF targetStats.due > 0 /\ pay > 0
       THEN [estimates |-> [st.estimates EXCEPT ![targetIdx] =
                [withEntry EXCEPT
                    !.amountPaid = newStats.paid,
                    !.paymentStatus = IF newStats.paid >= newStats.total - 1
                                      THEN "paid" ELSE "partial",
                    !.lastModified = now]],
             remainingAmount |-> st.remainingAmount - pay,
             posted |-> Append(st.posted, Posting(targetIdx, pay, "Payment"))]
       ELSE st

\* Faulty variant of PayOne: the record is given all that remains.
PayOneAll(st, snapshot, realIndex, now) ==
    LET stats == calculateDue(snapshot[realIndex])
        pay == st.remainingAmount
        est == st.estimates[realIndex]
        newEntry == [amount |-> pay, note |-> "Cleared"]
    IN [estimates |-> [st.estimates EXCEPT ![realIndex] =
            [est EXCEPT
                !.paymentHistory = <<Append(HistoryOrEmpty(est), newEntry)>>,
                !.amountPaid = est.amountPaid + pay,
                !.paymentStatus = IF est.amountPaid + pay >= stats.total - 1
                                  THEN "paid" ELSE "partial",
                !.lastModified = now]],
        remainingAmount |-> st.remainingAmount - pay,
        posted |-> Append(st.posted, Posting(realIndex, pay, "Cleared"))]

\* The body of the loop for a record with due > 1 (lines 1140-1153); stats
\* come from the copy made before the call edits anything.
PayOne(st, snapshot, realIndex, now) ==
    LET stats == calculateDue(snapshot[realIndex])
        pay == Min(stats.due, st.remainingAmount)
        est == st.estimates[realIndex]
        newEntry == [amount |-> pay, note |-> "Cleared"]
    IN [estimates |-> [st.estimates EXCEPT ![realIndex] =
            [est EXCEPT
                !.paymentHistory = <<Append(HistoryOrEmpty(est), newEntry)>>,
                !.amountPaid = est.amountPaid + pay,
                !.paymentStatus = IF est.amountPaid + pay >= stats.total - 1
                                  THEN "paid" ELSE "partial",
                !.lastModified = now]],
        remainingAmount |-> st.remainingAmount - pay,
        posted |-> Append(st.posted, Posting(realIndex, pay, "Cleared"))]

\* Faulty variant of PayOthers: the target is not skipped (line 1137).
RECURSIVE PayOthersNoSkip(_, _, _, _, _)
PayOthersNoSkip(st, snapshot, order, targetIdx, now) ==
    IF order = <<>> THEN st
    ELSE IF calculateDue(snapshot[Head(order)]).due > 1
    THEN LET paid == PayOne(st, snapshot, Head(order), now)
         IN IF paid.remainingAmount <= 0 THEN paid
            ELSE PayOthersNoSkip(paid, snapshot, Tail(order), targetIdx, now)
    ELSE PayOthersNoSkip(st, snapshot, Tail(order), targetIdx, now)

\* The loop of lines 1136-1156 over the rest of the sorted copies.
RECURSIVE PayOthers(_, _, _, _, _)
PayOthers(st, snapshot, order, targetIdx, now) ==
    IF order = <<>> THEN st
    ELSE IF snapshot[Head(order)].id = snapshot[targetIdx].id
    THEN PayOthers(st, snapshot, Tail(order), targetIdx, now)
    ELSE IF calculateDue(snapshot[Head(order)]).due > 1
    THEN LET paid == PayOne(st, snapshot, Head(order), now)
         IN IF paid.remainingAmount <= 0 THEN paid
            ELSE PayOthers(paid, snapshot, Tail(order), targetIdx, now)
    ELSE PayOthers(st, snapshot, Tail(order), targetIdx, now)

\* Faulty variant of PayAdvance: what remains after the dues is dropped.
PayAdvanceDropped(st, targetIdx, now) == st

\* Faulty variant of PayAdvance: the status of the target is left as it is.
PayAdvanceStatusKept(st, targetIdx, now) ==
    LET est == st.estimates[targetIdx]
        newEntry == [amount |-> st.remainingAmount, note |-> "Advance"]
        withEntry == [est EXCEPT !.paymentHistory =
                                    <<Append(HistoryOrEmpty(est), newEntry)>>]
        newStats == calculateDue(withEntry)
    IN IF st.remainingAmount > 0
       THEN [estimates |-> [st.estimates EXCEPT ![targetIdx] =
                [withEntry EXCEPT
                    !.amountPaid = newStats.paid,
                    !.lastModified = now]],
             remainingAmount |-> 0,
             posted |-> Append(st.posted,
                           Posting(targetIdx, st.remainingAmount, "Advance"))]
       ELSE st

\* Lines 1159-1172.
PayAdvance(st, targetIdx, now) ==
    LET est == st.estimates[targetIdx]
        newEntry == [amount |-> st.remainingAmount, note |-> "Advance"]
        withEntry == [est EXCEPT !.paymentHistory =
                                    <<Append(HistoryOrEmpty(est), newEntry)>>]
        newStats == calculateDue(withEntry)
    IN IF st.remainingAmount > 0
       THEN [estimates |-> [st.estimates EXCEPT ![targetIdx] =
                [withEntry EXCEPT
                    !.amountPaid = newStats.paid,
                    !.paymentStatus = "paid",
                    !.lastModified = now]],
             remainingAmount |-> 0,
             posted |-> Append(st.posted,
                           Posting(targetIdx, st.remainingAmount, "Advance"))]
       ELSE st

\* Faulty variant of Allocation: the older records are served before the
\* target.
AllocationOldestFirst(list, targetIdx, amount, now) ==
    LET start == [estimates |-> list, remainingAmount |-> amount,
                  posted |-> <<>>]
        others == PayOthers(start, list,
                      customerEstimatesIndices(list, targetIdx),
                      targetIdx, now)
        target == PayTarget(others, targetIdx, now)
    IN PayAdvance(target, targetIdx, now)

\* Lines 1100-1172 for a target at targetIdx: the target, then the others if
\* an amount remains, then the advance if an amount still remains.
Allocation(list, targetIdx, amount, now) ==
    LET start == [estimates |-> list, remainingAmount |-> amount,
                  posted |-> <<>>]
        target == PayTarget(start, targetIdx, now)
        others == IF target.remainingAmount > 0
                  THEN PayOthers(target, list,
                           customerEstimatesIndices(list, targetIdx),
                           targetIdx, now)
                  ELSE target
    IN PayAdvance(others, targetIdx, now)

\* addPaymentToEstimate of device i; an unknown id returns at line 1094.  The
\* list stored is passed to estimatesListener (line 1175), which is App's
\* setEstimates.
addPaymentToEstimate(i, targetEstId, amount, now) ==
    LET targetIdx == findIndex(book, targetEstId)
    IN IF targetIdx = 0
       THEN /\ call' = [n |-> call.n + 1, target |-> targetEstId,
                        amount |-> amount, before |-> book, posted |-> <<>>]
            /\ UNCHANGED <<syncVars, book, editor>>
       ELSE LET done == Allocation(book, targetIdx, amount, now)
            IN /\ book' = done.estimates
               /\ editor' = [editor EXCEPT !.estimates = book']
               /\ call' = [n |-> call.n + 1, target |-> targetEstId,
                           amount |-> amount, before |-> book,
                           posted |-> done.posted]
               /\ TouchAndSync(i, now)
               /\ UNCHANGED <<inventory, estimates, invView, estView, config,
                              STORE>>

\* The records a list may hold at the start: each as handleSaveEstimate
\* (src/App.tsx lines 522-532) or an imported file gives it, with no payment
\* yet.  INV1 and INV3 carry the same date and INV2 a later one, so that the
\* order by date is INV1, INV3, INV2.
Dates == <<1, 2, 1>>
Statuses == {"confirmed", "draft"}
NoCharges == [packing |-> 0, shipping |-> 0, adjustment |-> 0]
SomeCharges == [packing |-> 1, shipping |-> 2, adjustment |-> -1]
\* Line items (by amount) and charges of a record: one line of 3, one line
\* of 5, no line and charges of 2.
Goods == {<<<<3>>, NoCharges>>, <<<<5>>, NoCharges>>, <<<<>>, SomeCharges>>}
\* Largest payment.
MaxAmount == 7

NewRecord(k, st, c, g) ==
    [id |-> EstIds[k],
     invoiceNumber |-> IF st = "confirmed" THEN <<EstIds[k]>> ELSE <<>>,
     date |-> Dates[k],
     lastModified |-> 0,
     status |-> st,
     paymentStatus |-> "unpaid",
     customer |-> c,
     items |-> g[1],
     additionalCharges |-> g[2],
     paymentHistory |-> <<>>,
     amountPaid |-> 0]

Books ==
    {[k \in DOMAIN EstIds |-> NewRecord(k, st[k], c[k], g[k])] :
        st \in [DOMAIN EstIds -> Statuses],
        c \in [DOMAIN EstIds -> Customers],
        g \in [DOMAIN EstIds -> Goods]}

InitPay ==
    /\ inventory = [i \in Inst |-> {}]
    /\ estimates = [i \in Inst |-> {}]
    /\ lastSyncTs = [i \in Inst |-> <<>>]
    /\ config = [i \in Inst |-> FALSE]
    /\ STORE = <<>>
    /\ isSyncing = [i \in Inst |-> FALSE]
    /\ tasks = [i \in Inst |-> [s \in Slots |-> IdleTask]]
    /\ status = [i \in Inst |-> "offline"]
    /\ invView = [i \in Inst |-> {}]
    /\ estView = [i \in Inst |-> {}]
    /\ ticks = <<>>
    /\ log = <<>>
    /\ events = [i \in Inst |-> {}]
    /\ book \in Books
    /\ call = NoCall
    /\ editor = NoEditor

\* A payment entered on Dev for one of the records or for an id that is
\* gone; the call observed is the first one made on the list.
Pay ==
    /\ call = NoCall
    /\ \E now \in 0..MaxClock :
         /\ ClockCap(Dev, now)
         /\ \E id \in {EstIds[k] : k \in DOMAIN EstIds} \cup {UnknownId},
               amount \in 0..MaxAmount :
                addPaymentToEstimate(Dev, id, amount, now)
    /\ UNCHANGED <<ticks, log, events>>

NextPay == Pay

SpecPay == InitPay /\ [][NextPay]_vars

\* SpecLedger: the same call on records that carry payments already.  The
\* records are confirmed records of one customer; each is in one of these
\* payment states (paymentHistory, amountPaid, paymentStatus): no payment; a
\* cached amount without a history; a history and the cache equal to its sum
\* (what an earlier call leaves); a history of 2 with a cache of 0; an empty
\* history with a cache of 2; a history of 3 with its cache and the status
\* set back to unpaid by hand (updateEstimatePaymentStatus, lines 1075-1089).
\* The fourth and the fifth are what an imported file or a fetched envelope
\* may hold (importBackup, applyRemoteData store the records they are given).
PayStates ==
    {<< <<>>, 0, "unpaid" >>,
     << <<>>, 1, "partial" >>,
     << << <<[amount |-> 1, note |-> "Payment"]>> >>, 1, "partial" >>,
     << << <<[amount |-> 2, note |-> "Payment"]>> >>, 0, "partial" >>,
     << << <<>> >>, 2, "partial" >>,
     << << <<[amount |-> 3, note |-> "Payment"]>> >>, 3, "unpaid" >>}

LedgerGoods == {<<<<3>>, NoCharges>>, <<<<5>>, NoCharges>>}

LedgerBooks ==
    {[k \in DOMAIN EstIds |->
        [NewRecord(k, "confirmed", Acme, g[k]) EXCEPT
            !.paymentHistory = p[k][1],
            !.amountPaid = p[k][2],
            !.paymentStatus = p[k][3]]] :
        g \in [DOMAIN EstIds -> LedgerGoods],
        p \in [DOMAIN EstIds -> PayStates]}

InitLedger ==
    /\ inventory = [i \in Inst |-> {}]
    /\ estimates = [i \in Inst |-> {}]
    /\ lastSyncTs = [i \in Inst |-> <<>>]
    /\ config = [i \in Inst |-> FALSE]
    /\ STORE = <<>>
    /\ isSyncing = [i \in Inst |-> FALSE]
    /\ tasks = [i \in Inst |-> [s \in Slots |-> IdleTask]]
    /\ status = [i \in Inst |-> "offline"]
    /\ invView = [i \in Inst |-> {}]
    /\ estView = [i \in Inst |-> {}]
    /\ ticks = <<>>
    /\ log = <<>>
    /\ events = [i \in Inst |-> {}]
    /\ book \in LedgerBooks
    /\ call = NoCall
    /\ editor = NoEditor

SpecLedger == InitLedger /\ [][NextPay]_vars

\* ------------------------------------------------------ invoice numbers
\* SpecInvoice: the handlers of src/App.tsx that write estimate records, on
\* the list of SpecPay.  An invoice number `${prefix}${count + 1}` is held as
\* [prefix, n]; the items of a record carry no inventoryId, so that
\* handleSaveEstimate adjusts no stock (lines 534-562) and runs as one turn
\* up to the await inside saveEstimateRecord.
IsLetter(c) == c \in {"A", "a", "J", "j"}

UpperChar(c) == IF c = "a" THEN "A" ELSE IF c = "j" THEN "J" ELSE c

\* s.replace(/[^a-zA-Z]/g, '').toUpperCase().padEnd(3, 'X').substring(0, 3)
CleanPrefix(s) ==
    LET letters == SelectSeq(s, IsLetter)
        upper == [k \in DOMAIN letters |-> UpperChar(letters[k])]
    IN SubSeq(upper \o <<"X", "X", "X">>, 1, 3)

\* generateInvoiceId (src/App.tsx lines 496-504) on the list App holds.
generateInvoiceId(list, cust) ==
    LET prefix == CleanPrefix(IF cust.firmName # <<>> THEN cust.firmName
                              ELSE cust.name)
                    \o CleanPrefix(cust.name)
        existingCount ==
            Cardinality({k \in DOMAIN list :
                            /\ list[k].invoiceNumber # <<>>
                            /\ list[k].invoiceNumber[1].prefix = prefix})
    IN [prefix |-> prefix, n |-> existingCount + 1]

\* crypto.randomUUID(): an id no record of the list carries.
FreshIds(list) ==
    {EstIds[k] : k \in DOMAIN EstIds} \ {list[k].id : k \in DOMAIN list}

\* Faulty variant of SavedInvoiceNumber: a record saved as draft carries no
\* number.
SavedInvoiceNumberDraftNone(list, cur, st, cust) ==
    IF st = "confirmed"
    THEN IF cur # <<>> /\ findIndex(list, cur[1]) # 0
            /\ list[findIndex(list, cur[1])].invoiceNumber # <<>>
         THEN list[findIndex(list, cur[1])].invoiceNumber
         ELSE <<generateInvoiceId(list, cust)>>
    ELSE <<>>

\* invNum of handleSaveEstimate (lines 517-520): the number of the record in
\* the editor if App's list has one for it, a new one for a confirmation
\* without a number.
SavedInvoiceNumber(list, cur, st, cust) ==
    LET idx == IF cur # <<>> THEN findIndex(list, cur[1]) ELSE 0
        invNum == IF idx # 0 THEN list[idx].invoiceNumber ELSE <<>>
    IN IF st = "confirmed" /\ invNum = <<>>
       THEN <<generateInvoiceId(list, cust)>>
       ELSE invNum

\* handleSaveEstimate (lines 507-572) with status st for the customer and the
\* goods in the editor, then saveEstimateRecord (1046-1059) and
\* setCurrentEstimateId (566).  Without a customer name or without items the
\* handler returns (508-515).
handleSaveEstimate(i, st, cust, g, now) ==
    /\ cust.name # <<>>
    /\ g[1] # <<>>
    /\ editor.currentEstimateId # <<>> \/ FreshIds(book) # {}
    /\ LET id == IF editor.currentEstimateId # <<>>
                 THEN editor.currentEstimateId[1]
                 ELSE CHOOSE x \in FreshIds(book) :
                        \A y \in FreshIds(book) :
                            \A j, k \in DOMAIN EstIds :
                                EstIds[j] = x /\ EstIds[k] = y => j <= k
           newRecord ==
              [id |-> id,
               invoiceNumber |-> SavedInvoiceNumber(editor.estimates,
                                     editor.currentEstimateId, st, cust),
               date |-> now,
               lastModified |-> now,
               status |-> st,
               paymentStatus |-> "unpaid",
               customer |-> cust,
               items |-> g[1],
               additionalCharges |-> g[2],
               paymentHistory |-> <<>>,
               amountPaid |-> 0]
           idx == findIndex(book, id)
       IN /\ book' = IF idx # 0 THEN [book EXCEPT ![idx] = newRecord]
                     ELSE Append(book, newRecord)
          /\ editor' = [currentEstimateId |-> <<id>>, estimates |-> book']
    /\ TouchAndSync(i, now)
    /\ UNCHANGED <<inventory, estimates, invView, estView, config, STORE,
                   call>>

\* updateEstimatePaymentStatus (lines 1075-1089), called by
\* handlePaymentUpdate (src/App.tsx 627-631).
updateEstimatePaymentStatus(i, id, ps, now) ==
    LET idx == findIndex(book, id)
    IN IF idx = 0
       THEN UNCHANGED <<syncVars, book, call, editor>>
       ELSE /\ book' = [book EXCEPT ![idx].paymentStatus = ps,
                                    ![idx].lastModified = now]
            /\ editor' = [editor EXCEPT !.estimates = book']
            /\ TouchAndSync(i, now)
            /\ UNCHANGED <<inventory, estimates, invView, estView, config,
                           STORE, call>>

\* handleDeleteEstimate (src/App.tsx 574-591) of a record without stock to
\* restore: deleteEstimateRecord (1061-1073), then createNewEstimate if the
\* record was in the editor, which leaves the editor as it is when the user
\* declines to discard (keep).
handleDeleteEstimate(i, id, keep, now) ==
    LET NotIt(e) == e.id # id
        rest == SelectSeq(book, NotIt)
        cleared == IF editor.currentEstimateId = <<id>> /\ ~keep
                   THEN <<>> ELSE editor.currentEstimateId
    IN IF Len(rest) # Len(book)
       THEN /\ book' = rest
            /\ editor' = [currentEstimateId |-> cleared, estimates |-> book']
            /\ TouchAndSync(i, now)
            /\ UNCHANGED <<inventory, estimates, invView, estView, config,
                           STORE, call>>
       ELSE /\ editor' = [editor EXCEPT !.currentEstimateId = cleared]
            /\ UNCHANGED <<syncVars, book, call>>

\* loadEstimateToEditor (src/App.tsx 606-614) of the k-th record listed.
loadEstimateToEditor(k) ==
    /\ editor' = [editor EXCEPT
                    !.currentEstimateId = <<editor.estimates[k].id>>]
    /\ UNCHANGED <<syncVars, book, call>>

\* createNewEstimate (src/App.tsx 616-625), the discard accepted.
createNewEstimate ==
    /\ editor.currentEstimateId # <<>>
    /\ editor' = [editor EXCEPT !.currentEstimateId = <<>>]
    /\ UNCHANGED <<syncVars, book, call>>

\* The amounts paid in SpecInvoice and the goods an estimate is saved with.
InvoiceAmounts == {1}
InvoiceGoods == {<<<<3>>, NoCharges>>}
PaymentStatuses == {"unpaid", "partial", "paid"}

InvoiceSave ==
    \E now \in 0..MaxClock, st \in Statuses, cust \in Customers,
       g \in InvoiceGoods :
        ClockCap(Dev, now) /\ handleSaveEstimate(Dev, st, cust, g, now)

InvoiceStatus ==
    \E now \in 0..MaxClock, k \in DOMAIN editor.estimates,
       ps \in PaymentStatuses :
        /\ ClockCap(Dev, now)
        /\ updateEstimatePaymentStatus(Dev, editor.estimates[k].id, ps, now)

InvoicePay ==
    \E now \in 0..MaxClock, amount \in InvoiceAmounts,
       k \in DOMAIN editor.estimates :
        /\ ClockCap(Dev, now)
        /\ addPaymentToEstimate(Dev, editor.estimates[k].id, amount, now)

InvoiceDelete ==
    \E now \in 0..MaxClock, k \in DOMAIN editor.estimates, keep \in BOOLEAN :
        /\ ClockCap(Dev, now)
        /\ handleDeleteEstimate(Dev, editor.estimates[k].id, keep, now)

InvoiceEdit ==
    \/ \E k \in DOMAIN editor.estimates : loadEstimateToEditor(k)
    \/ createNewEstimate

NextInvoice ==
    /\ \/ InvoiceSave
       \/ InvoiceStatus
       \/ InvoicePay
       \/ InvoiceDelete
       \/ InvoiceEdit
    /\ UNCHANGED <<ticks, log, events>>

SpecInvoice == Init /\ [][NextInvoice]_vars

\* SpecNumbers: orders are confirmed and deleted in App, one after the
\* other: a confirmation of the estimate in the editor, the
\* deletion of a record listed, a new estimate.  The wall clock stands
\* still, so that every save ticks the clock by one.
\* Largest number of saves and deletions.
MaxSaves == 4

SavesCap == StoredTS(lastSyncTs[Dev]) < MaxSaves

NumbersConfirm ==
    /\ SavesCap
    /\ \E cust \in Customers, g \in InvoiceGoods :
          handleSaveEstimate(Dev, "confirmed", cust, g, 0)

NumbersDelete ==
    /\ SavesCap
    /\ \E k \in DOMAIN editor.estimates, keep \in BOOLEAN :
          handleDeleteEstimate(Dev, editor.estimates[k].id, keep, 0)

NumbersNew == createNewEstimate

NextNumbers ==
    /\ \/ NumbersConfirm
       \/ NumbersDelete
       \/ NumbersNew
    /\ UNCHANGED <<ticks, log, events>>

SpecNumbers == Init /\ [][NextNumbers]_vars

\* SpecNoop: the mutations that look an id up, called on Dev with ids that
\* are there and with ids that are not, between the steps that fill the
\* lists and run the reconciles.  log holds the last call when the last step
\* was such a call: the operation and whether an id was found.  The cap on
\* the clock applies to the calls that tick it.
\* Largest number of payment calls.
MaxCalls == 1

\* The readings of Date.now() in SpecNoop: a wall clock that stands still, so
\* that every tick is the stored clock plus one.
NoopNows == {0}

NoopRecord(op, hit) == <<[op |-> op, hit |-> hit]>>

NoopSetup ==
    /\ \/ setCloudConfig(Dev)
       \/ Worker(Dev)
       \/ SyncResume(Dev)
       \/ \E now \in NoopNows, x \in Items :
              ClockCap(Dev, now) /\ addInventoryItem(Dev, x, now)
       \/ \E now \in NoopNows, e \in Ests :
              ClockCap(Dev, now) /\ saveEstimateRecord(Dev, e, now)
    /\ log' = <<>>
    /\ UNCHANGED histNoLog

NoopSave ==
    /\ \E now \in NoopNows, g \in InvoiceGoods :
          ClockCap(Dev, now) /\ handleSaveEstimate(Dev, "confirmed", Acme, g, now)
    /\ log' = <<>>
    /\ UNCHANGED <<ticks, events>>

NoopDeleteItem ==
    /\ \E now \in NoopNows, x \in Items :
          /\ x \in inventory[Dev] => ClockCap(Dev, now)
          /\ deleteInventoryItem(Dev, x, now)
          /\ log' = NoopRecord("deleteInventoryItem", x \in inventory[Dev])
    /\ UNCHANGED histNoLog

NoopStock ==
    /\ \E now \in NoopNows, S \in SUBSET Items :
          /\ S \cap inventory[Dev] # {} => ClockCap(Dev, now)
          /\ updateInventoryStock(Dev, S, now)
          /\ log' = NoopRecord("updateInventoryStock", S \cap inventory[Dev] # {})
    /\ UNCHANGED histNoLog

NoopDeleteEstimate ==
    /\ \E now \in NoopNows, e \in Ests :
          /\ e \in estimates[Dev] => ClockCap(Dev, now)
          /\ deleteEstimateRecord(Dev, e, now)
          /\ log' = NoopRecord("deleteEstimateRecord", e \in estimates[Dev])
    /\ UNCHANGED histNoLog

NoopStatus ==
    /\ \E now \in NoopNows, ps \in {"paid"},
          id \in {EstIds[k] : k \in DOMAIN EstIds} \cup {UnknownId} :
          /\ findIndex(book, id) # 0 => ClockCap(Dev, now)
          /\ updateEstimatePaymentStatus(Dev, id, ps, now)
          /\ log' = NoopRecord("updateEstimatePaymentStatus",
                               findIndex(book, id) # 0)
    /\ UNCHANGED <<ticks, events>>

NoopPay ==
    /\ call.n < MaxCalls
    /\ \E now \in NoopNows, amount \in InvoiceAmounts,
          id \in {EstIds[k] : k \in DOMAIN EstIds} \cup {UnknownId} :
          /\ findIndex(book, id) # 0 => ClockCap(Dev, now)
          /\ addPaymentToEstimate(Dev, id, amount, now)
          /\ log' = NoopRecord("addPaymentToEstimate", findIndex(book, id) # 0)
    /\ UNCHANGED <<ticks, events>>

NextNoop ==
    \/ NoopSetup
    \/ NoopSave
    \/ NoopDeleteItem
    \/ NoopStock
    \/ NoopDeleteEstimate
    \/ NoopStatus
    \/ NoopPay

SpecNoop == Init /\ [][NextNoop]_vars

\* SpecWorker: the worker alone, called by clients that send any of a few
\* Authorization headers.  Here STORE is the whole KV namespace env.STORE: for
\* each key, <<>> when the key holds nothing and <<text>> when it holds a
\* body.  log holds the last request with its response, and for each header
\* the body of the last PUT made with it that was answered 200.
\*
\* The Authorization headers sent: two tokens that differ in a dash, a third
\* token, a blank header and no header (<<>>).
Tokens == {<<"a", "b">>, <<"a", "-", "b">>, <<"c">>, <<" ">>, <<>>}

\* worker.js line 33: authHeader && authHeader.trim().length > 0
hasAuth(authHeader) == authHeader # <<>> /\ Len(trim(authHeader)) > 0

\* [a-zA-Z0-9] among the characters of Tokens.
IsAlnum(c) == c \in {"a", "b", "c"}

\* worker.js line 66: `user_${authHeader.replace(/[^a-zA-Z0-9]/g, '')}`
KEY(authHeader) == <<"user_">> \o SelectSeq(authHeader, IsAlnum)

Keys == {KEY(h) : h \in {t \in Tokens : hasAuth(t)}}

\* The bodies of the PUTs: two envelopes and a text that is not JSON.
NotJson == [text |-> "not json"]
Bodies == {Envelope({"A"}, {}, 1), Envelope({}, {"E"}, 2), NotJson}

\* worker.js fetch (lines 16-113) with the KV namespace bound: the status and
\* the body of the response and the namespace afterwards; root says that the
\* path of the URL is "/".
fetch(method, root, authHeader, bodyText, store) ==
    IF method = "OPTIONS"
    THEN [status |-> 200, body |-> [text |-> ""], store |-> store]
    ELSE IF root /\ ~hasAuth(authHeader)
    THEN [status |-> 200, body |-> [status |-> "Online"], store |-> store]
    ELSE IF ~hasAuth(authHeader)
    THEN [status |-> 401, body |-> [error |-> "Unauthorized: Missing Token"],
          store |-> store]
    ELSE IF method = "GET"
    THEN [status |-> 200, body |-> WorkerGetPayload(store[KEY(authHeader)]),
          store |-> store]
    ELSE IF method = "PUT"
    THEN IF bodyText = NotJson
         THEN [status |-> 400, body |-> [error |-> "Invalid JSON body"],
               store |-> store]
         ELSE [status |-> 200, body |-> [success |-> TRUE],
               store |-> [store EXCEPT ![KEY(authHeader)] =
                                          WorkerPutStore(@, bodyText)]]
    ELSE [status |-> 405, body |-> [error |-> "Method not allowed"],
          store |-> store]

\* For each header, the body of its last PUT answered 200 (<<>>: none yet).
LastPut == IF log = <<>> THEN [t \in Tokens |-> <<>>] ELSE log[1].lastPut

WorkerRequest ==
    /\ \E method \in {"OPTIONS", "GET", "PUT", "POST"}, root \in BOOLEAN,
          authHeader \in Tokens, bodyText \in Bodies :
          LET r == fetch(method, root, authHeader, bodyText, STORE)
              put == method = "PUT" /\ hasAuth(authHeader) /\ r.status = 200
          IN /\ STORE' = r.store
             /\ log' = <<[method |-> method, authHeader |-> authHeader,
                          status |-> r.status, body |-> r.body,
                          lastPut |-> IF put
                                      THEN [LastPut EXCEPT ![authHeader] =
                                                              <<bodyText>>]
                                      ELSE LastPut]>>
    /\ UNCHANGED <<inventory, estimates, lastSyncTs, config, isSyncing, tasks,
                   status, invView, estView, histNoLog>>

InitWorker ==
    /\ inventory = [i \in Inst |-> {}]
    /\ estimates = [i \in Inst |-> {}]
    /\ lastSyncTs = [i \in Inst |-> <<>>]
    /\ config = [i \in Inst |-> FALSE]
    /\ STORE = [k \in Keys |-> <<>>]
    /\ isSyncing = [i \in Inst |-> FALSE]
    /\ tasks = [i \in Inst |-> [s \in Slots |-> IdleTask]]
    /\ status = [i \in Inst |-> "offline"]
    /\ invView = [i \in Inst |-> {}]
    /\ estView = [i \in Inst |-> {}]
    /\ InitHist

NextWorker == WorkerRequest

SpecWorker == InitWorker /\ [][NextWorker]_vars

\* ---------------------------------------------------------------- claims
\* The local snapshot of device i: what pushToCloud reads.
LocalSnapshot(i) == Envelope(inventory[i], estimates[i], StoredTS(lastSyncTs[i]))

LocalUnchanged(i) ==
    /\ inventory'[i] = inventory[i]
    /\ estimates'[i] = estimates[i]
    /\ lastSyncTs'[i] = lastSyncTs[i]

PendingSyncs(i) == {s \in SyncSlots : tasks[i][s].pc # "idle"}

\* C1: a device has at most one syncData invocation past the guard at any
\* time, and a step taken while isSyncing is set (a mutation, a poll tick, a
\* focus event, a configuration change) issues no GET of a reconcile: no
\* slot enters the state that waits for the GET.  A reload starts a new
\* engine instance and is not such a step.
C1_MutualExclusion ==
    /\ [](\A i \in Inst : Cardinality(PendingSyncs(i)) <= 1)
    /\ [][\A i \in Inst :
            (isSyncing[i] /\ ~Restart(i)) =>
                \A s \in SyncSlots :
                    tasks'[i][s].pc = "get" => tasks[i][s].pc = "get"]_vars

\* C1 witness: a mutation ticked the clock while the GET of a reconcile was
\* pending, so its syncData call met the guard.
C1_Witness ==
    \E s \in SyncSlots :
        /\ tasks[Dev][s].pc = "get"
        /\ isSyncing[Dev]
        /\ tasks[Dev][s].lts < StoredTS(lastSyncTs[Dev])

\* C2: every reconcile that sets isSyncing eventually clears it (unless the
\* page is reloaded again and again, each reload starting a new reconcile).
C2_FlagEventuallyCleared ==
    <>[][~Restart(Dev)]_vars => (isSyncing[Dev] ~> ~isSyncing[Dev])

\* C3: once the mutations have stopped and the network works, the local
\* snapshot of both devices ends up equal to the remote envelope, for good.
Converged == \A i \in Inst : LocalSnapshot(i) = WorkerGetPayload(STORE)

C3_Convergence ==
    <>[][~\E i \in Inst : PairMutation(i) \/ PairFails(i)]_vars => <>[]Converged

\* C4: when syncData resumes on a fetched envelope whose timestamp is greater
\* than the local clock it read (line 763), the local inventory, estimates
\* and clock become the envelope's, both listeners get the pulled lists, the
\* status notified is synced and the invocation is over.
C4_PullReplaces ==
    [][\A s \in SyncSlots, now \in 0..MaxClock :
          (/\ SyncGetOk(Dev, s, now)
           /\ tasks[Dev][s].env.timestamp > tasks[Dev][s].lts) =>
             /\ inventory'[Dev] = tasks[Dev][s].env.inventory
             /\ estimates'[Dev] = tasks[Dev][s].env.estimates
             /\ StoredTS(lastSyncTs'[Dev]) = tasks[Dev][s].env.timestamp
             /\ invView'[Dev] = tasks[Dev][s].env.inventory
             /\ estView'[Dev] = tasks[Dev][s].env.estimates
             /\ status'[Dev] = "synced"
             /\ ~isSyncing'[Dev]]_vars

\* C4 witness: a fetched envelope with a greater timestamp is about to be
\* applied to a device that holds a record the envelope does not.
C4_Witness ==
    \E s \in SyncSlots :
        /\ tasks[Dev][s].pc = "getResp"
        /\ tasks[Dev][s].env.timestamp > tasks[Dev][s].lts
        /\ ~(inventory[Dev] \subseteq tasks[Dev][s].env.inventory)

\* C5: when syncData resumes on a fetched envelope whose timestamp is lower
\* than the local clock it read, it sends one PUT whose body is the local
\* inventory, estimates and clock of that moment and leaves the local store
\* alone; the body does not change in flight; the worker replaces the remote
\* envelope by it; on the acknowledgement the status notified is synced and
\* the local store is left alone.
C5_PushSendsSnapshot ==
    [][\A s \in SyncSlots :
          /\ \A now \in 0..MaxClock :
                (/\ SyncGetOk(Dev, s, now)
                 /\ tasks[Dev][s].env.timestamp < tasks[Dev][s].lts) =>
                   /\ tasks'[Dev][s].pc = "put"
                   /\ tasks'[Dev][s].env = LocalSnapshot(Dev)
                   /\ \A t \in SyncSlots \ {s} : tasks'[Dev][t] = tasks[Dev][t]
                   /\ LocalUnchanged(Dev)
          /\ (tasks[Dev][s].pc = "put" /\ tasks'[Dev][s].pc = "put") =>
                tasks'[Dev][s].env = tasks[Dev][s].env
          /\ WorkerPut(Dev, s) => STORE' = <<tasks[Dev][s].env>>
          /\ SyncPutAck(Dev, s) =>
                /\ status'[Dev] = "synced"
                /\ ~isSyncing'[Dev]
                /\ LocalUnchanged(Dev)]_vars

\* C5 witness: the PUT of a reconcile was handled and the remote envelope is
\* the local snapshot, whose clock has been ticked.
C5_Witness ==
    \E s \in SyncSlots :
        /\ tasks[Dev][s].pc = "putResp"
        /\ STORE = <<LocalSnapshot(Dev)>>
        /\ inventory[Dev] # {}

\* C6: the clock stored by a device never decreases.
C6_ClockNeverDecreases ==
    [][\A i \in Inst : StoredTS(lastSyncTs'[i]) >= StoredTS(lastSyncTs[i])]_vars

\* C9: when a reconcile fails during the GET or during the PUT, the status
\* notified is error, the local inventory, estimates and clock stay as they
\* are and the invocation is over.
C9_ErrorLeavesLocal ==
    [][\A s \in SyncSlots :
          (SyncGetError(Dev, s) \/ SyncPutError(Dev, s)) =>
             /\ status'[Dev] = "error"
             /\ LocalUnchanged(Dev)
             /\ tasks'[Dev][s].pc = "idle"
             /\ ~isSyncing'[Dev]]_vars

\* C9 witness: a reconcile failed after a mutation; the mutation is still in
\* the local store.
C9_Witness ==
    /\ status[Dev] = "error"
    /\ inventory[Dev] # {}
    /\ StoredTS(lastSyncTs[Dev]) > 0
    /\ ~isSyncing[Dev]

\* C10: when the fetched envelope is the default one of a key never written
\* (timestamp 0), syncData sends a PUT, whatever the local clock is.
C10_EmptyRemotePushes ==
    [][\A s \in SyncSlots, now \in 0..MaxClock :
          (/\ SyncGetOk(Dev, s, now)
           /\ tasks[Dev][s].env.timestamp = 0) =>
             tasks'[Dev][s].pc = "put"]_vars

\* C7: over any calls of touchLocalData and reloads, whatever the wall clock
\* reads, each value returned is greater than every value returned before.
C7_TickMonotonic ==
    \A j, k \in 1..Len(ticks) : j < k => ticks[j].ret < ticks[k].ret

\* C7 witness: after a reading of the wall clock that is not above the value
\* returned before it (the clock stood still or went back), a third call.
C7_Witness ==
    /\ Len(ticks) >= 3
    /\ ticks[2].now <= ticks[1].ret
    /\ ticks[3].now < ticks[2].now

\* C8 as claimed: the value returned is greater than the wall-clock reading
\* and than the clock stored before, and it is the clock stored after.
C8_TickAboveNowAndStored ==
    \A k \in 1..Len(ticks) :
        /\ ticks[k].ret > ticks[k].now
        /\ ticks[k].ret > ticks[k].stored
        /\ ticks[k].persisted = ticks[k].ret

\* C8 as amended: the value returned is at least the wall-clock reading,
\* greater than the clock stored before, and it is the clock stored after.
C8_TickAtLeastNow ==
    \A k \in 1..Len(ticks) :
        /\ ticks[k].ret >= ticks[k].now
        /\ ticks[k].ret > ticks[k].stored
        /\ ticks[k].persisted = ticks[k].ret

\* C8 witness: a call that returned the wall-clock reading itself, with two
\* digits, and a call that returned the stored clock plus one.
C8_Witness ==
    /\ \E k \in 1..Len(ticks) : ticks[k].ret = ticks[k].now /\ ticks[k].ret >= 10
    /\ \E k \in 1..Len(ticks) : ticks[k].ret = ticks[k].stored + 1 /\ ticks[k].now < ticks[k].stored

\* C11: when syncData resumes on a fetched envelope whose timestamp equals
\* the local clock it read, the status notified is synced, the invocation is
\* over without a PUT, and the local inventory, estimates and clock and the
\* remote envelope stay as they are.
C11_EqualMovesNothing ==
    [][\A s \in SyncSlots, now \in PushNows(Dev) :
          (/\ tasks[Dev][s].pc = "getResp"
           /\ tasks[Dev][s].env.timestamp = tasks[Dev][s].lts
           /\ SyncGetOk(Dev, s, now)) =>
             /\ status'[Dev] = "synced"
             /\ tasks'[Dev][s].pc = "idle"
             /\ ~isSyncing'[Dev]
             /\ LocalUnchanged(Dev)
             /\ STORE' = STORE]_vars

\* C11 witness: a fetched envelope carries the timestamp of a local clock that
\* has been ticked, and the local store holds a record.
C11_Witness ==
    \E s \in SyncSlots :
        /\ tasks[Dev][s].pc = "getResp"
        /\ tasks[Dev][s].env.timestamp = tasks[Dev][s].lts
        /\ tasks[Dev][s].lts > 0
        /\ inventory[Dev] # {}

CallAt(n) ==
    LET at == {k \in 1..Len(log) :
                  /\ log[k] = "call"
                  /\ Cardinality({j \in 1..k : log[j] = "call"}) = n}
    IN IF at = {} THEN 0 ELSE CHOOSE k \in at : TRUE

LogHas(ev, from, to) == \E k \in from..to : log[k] = ev

\* C12 as claimed: two calls of syncData in immediate succession, none of
\* whose requests fails, issue at most one request between them.
C12_AtMostOneRoundTrip ==
    ~LogHas("error", 1, Len(log)) =>
        Cardinality({k \in 1..Len(log) : log[k] \in {"GET", "PUT"}}) <= 1

\* C12 as amended: the second call moves no data.  Made while the first call
\* is in flight it issues no request; made after the first call ended without
\* a failure it issues its GET and is followed by no PUT and no pull.
C12_SecondCallMovesNothing ==
    LET k1 == CallAt(1)
        k2 == CallAt(2)
    IN k2 # 0 =>
         /\ (LogHas("GET", k1, k2) /\ ~LogHas("end", k1, k2)) =>
                (k2 = Len(log) \/ log[k2 + 1] # "GET")
         /\ (LogHas("end", k1, k2) /\ ~LogHas("error", k1, k2)) =>
                (~LogHas("PUT", k2, Len(log)) /\ ~LogHas("pull", k2, Len(log)))

\* C12 witness: the first call pushed, the second call fetched and ended
\* without a PUT or a pull.
C12_Witness == log = <<"call", "GET", "PUT", "end", "call", "GET", "end">>

\* C13, first part: forceUploadToCloud ticks the clock above its value before
\* and sends the local lists with the ticked clock, whatever the remote
\* holds; the worker replaces the remote envelope by that body.
ForcePushSends ==
    /\ \A now \in 0..MaxClock :
          forceUploadToCloud(Forcer, now) =>
             /\ StoredTS(lastSyncTs'[Forcer]) > StoredTS(lastSyncTs[Forcer])
             /\ tasks'[Forcer]["f"].env =
                    Envelope(inventory[Forcer], estimates[Forcer],
                             StoredTS(lastSyncTs'[Forcer]))
    /\ WorkerPut(Forcer, "f") => STORE' = <<tasks[Forcer]["f"].env>>

\* C13, second part: a reconcile of the other device that fetched the
\* acknowledged forced envelope, and read a clock not higher than its
\* timestamp, pulls it.
OtherPullsForced ==
    \A s \in SyncSlots, now \in PushNows(Other) :
        (/\ log # <<>>
         /\ log[1].acked
         /\ tasks[Other][s].pc = "getResp"
         /\ tasks[Other][s].env = log[1].body
         /\ tasks[Other][s].lts <= tasks[Other][s].env.timestamp
         /\ SyncGetOk(Other, s, now)) =>
            /\ inventory'[Other] = tasks[Other][s].env.inventory
            /\ estimates'[Other] = tasks[Other][s].env.estimates
            /\ StoredTS(lastSyncTs'[Other]) = tasks[Other][s].env.timestamp

\* C13: a force upload ticks the clock and sends the local snapshot without
\* comparing clocks, and a later reconcile of another device whose clock is
\* not higher than the forced timestamp pulls the forced snapshot.
C13_ForcePushWins == [][ForcePushSends /\ OtherPullsForced]_vars

\* C14: when forceDownloadFromCloud resumes on a fetched envelope, the local
\* inventory, estimates and clock become the envelope's, however the clocks
\* compare, both listeners get the fetched lists and the status notified is
\* synced; when its request fails, the local inventory, estimates and clock
\* stay as they are.
C14_ForceDownloadReplaces ==
    [][/\ ForceGetOk(Dev) =>
             /\ inventory'[Dev] = tasks[Dev]["f"].env.inventory
             /\ estimates'[Dev] = tasks[Dev]["f"].env.estimates
             /\ StoredTS(lastSyncTs'[Dev]) = tasks[Dev]["f"].env.timestamp
             /\ invView'[Dev] = tasks[Dev]["f"].env.inventory
             /\ estView'[Dev] = tasks[Dev]["f"].env.estimates
             /\ status'[Dev] = "synced"
       /\ ForceError(Dev) => LocalUnchanged(Dev)]_vars

\* C14 witness: a force download has fetched an envelope that is older than
\* the local clock and lacks a record the local store holds.
C14_Witness ==
    /\ tasks[Dev]["f"].pc = "getResp"
    /\ tasks[Dev]["f"].env.timestamp < StoredTS(lastSyncTs[Dev])
    /\ ~(inventory[Dev] \subseteq tasks[Dev]["f"].env.inventory)

\* C15: when syncData, having read a ticked clock, resumes on a 200 response
\* whose JSON body is not an envelope (it has no inventory, no estimates and
\* no timestamp), the status notified is error, the invocation is over,
\* nothing local is written and no PUT is sent.
C15_InvalidEnvelopeRejected ==
    [][\A s \in SyncSlots, now \in PushNows(Dev) :
          (tasks[Dev][s].lts > 0 /\ SyncGetOther(Dev, s, now)) =>
             /\ status'[Dev] = "error"
             /\ tasks'[Dev][s].pc = "idle"
             /\ LocalUnchanged(Dev)]_vars

\* The envelopes of the model.
Envelopes ==
    {Envelope(inv, est, ts) :
        inv \in SUBSET Items, est \in SUBSET Ests, ts \in 0..MaxClock}

\* C17: once the disturbances have stopped, a local snapshot whose clock is
\* above the remote timestamp, on a configured device none of whose requests
\* is left without an answer, eventually is the remote envelope.
C17_MutationReachesRemote ==
    \A snap \in Envelopes :
        (/\ Quiet
         /\ config[Dev]
         /\ \A s \in Slots : tasks[Dev][s].pc # "hung"
         /\ LocalSnapshot(Dev) = snap
         /\ snap.timestamp > WorkerGetPayload(STORE).timestamp)
        ~> (STORE = <<snap>>)

\* C18: between two tabs that share the local store, a tab for which no
\* storage event of a list is pending has had its subscriber notified with
\* the list now stored, whichever tab wrote it, by a mutation or by a pull;
\* and the dispatch of a storage event of a list starts no request.
C18_TabsSeeWrites ==
    /\ [](\A t \in Inst :
            /\ "inv" \notin events[t] => invView[t] = inventory[Dev]
            /\ "est" \notin events[t] => estView[t] = estimates[Dev])
    /\ [][\A t \in Inst :
            TabStorageEvent(t) =>
                (tasks' = tasks /\ isSyncing' = isSyncing /\ STORE' = STORE)]_vars

\* C18 witness: a pull made by the first tab has replaced a list the second
\* tab's subscriber still shows, and the storage event for the second tab is
\* pending.
C18_Witness ==
    /\ "inv" \in events["d2"]
    /\ invView["d2"] # inventory[Dev]
    /\ invView["d1"] = inventory[Dev]
    /\ WorkerGetPayload(STORE) = LocalSnapshot(Dev)
    /\ status["d1"] = "synced"
    /\ invView["d2"] # {}

\* The payment entries the last call appended to record k, and their sum.
NewEntries(k) ==
    SubSeq(HistoryOrEmpty(book[k]),
           Len(HistoryOrEmpty(call.before[k])) + 1,
           Len(HistoryOrEmpty(book[k])))

Received(k) == SumSeq([j \in DOMAIN NewEntries(k) |-> NewEntries(k)[j].amount])

\* The call made was on a record of the list.
CalledOnRecord == call.n > 0 /\ findIndex(call.before, call.target) # 0

\* C19: after addPaymentToEstimate on an existing target with an amount of
\* zero or more, the amounts of all the payment entries the call appended,
\* over the target and every other record, add up to the amount paid in.
C19_AllocationConserves ==
    CalledOnRecord =>
        SumSeq([k \in DOMAIN book |-> Received(k)]) = call.amount

\* C19 witness: a call whose amount went to the target as payment, to
\* another record, and back to the target as an advance.
C19_Witness ==
    /\ CalledOnRecord
    /\ LET t == findIndex(call.before, call.target)
       IN /\ Len(NewEntries(t)) = 2
          /\ \E k \in DOMAIN book : k # t /\ Received(k) > 0
          /\ \A k \in DOMAIN book : \A j \in DOMAIN NewEntries(k) :
                NewEntries(k)[j].amount < call.amount

\* C20: the target is served first.  With a target due above 0 and an
\* amount above 0, the first entry the call creates is on the target and is
\* min(due, amount); another record receives something only when the
\* target's due is covered, and all the other records together receive at
\* most the amount less the target's share.
C20_TargetFirst ==
    CalledOnRecord =>
        LET t == findIndex(call.before, call.target)
            due == calculateDue(call.before[t]).due
            share == IF due > 0 THEN Min(due, call.amount) ELSE 0
            others == SumSeq([k \in DOMAIN book |->
                                 IF k = t THEN 0 ELSE Received(k)])
        IN /\ share > 0 =>
                /\ call.posted[1] = Posting(t, share, "Payment")
                /\ NewEntries(t)[1].amount = share
           /\ others <= call.amount - share
           /\ others > 0 /\ due > 0 => share = due

\* C20 witness: INV1 (older) due 5, INV2 (newer) due 3, same customer, 6 paid
\* on INV2: INV2 is paid, 3 go to INV1, whose due becomes 2, status partial.
C20_Witness ==
    /\ call.n > 0 /\ call.target = "INV2" /\ call.amount = 6
    /\ calculateDue(call.before[1]).due = 5
    /\ calculateDue(call.before[2]).due = 3
    /\ book[2].paymentStatus = "paid"
    /\ Received(2) = 3
    /\ Received(1) = 3
    /\ calculateDue(book[1]).due = 2
    /\ book[1].paymentStatus = "partial"

\* The target of the last call, the other records the call may pay (confirmed,
\* same customer key) and the due of a record before the call.
TargetIdx == findIndex(call.before, call.target)

OthersOf(t) ==
    {k \in DOMAIN call.before :
        /\ k # t
        /\ call.before[k].status = "confirmed"
        /\ getCustKey(call.before[k].customer)
             = getCustKey(call.before[t].customer)}

DueBefore(k) == calculateDue(call.before[k]).due

\* The case of the oldest-first scenario: the two other records j (earlier)
\* and k (later) both owe more than 1 and the amount is the target's due, j's
\* due and 1.
OldestFirstCase(t, j, k) ==
    /\ OthersOf(t) = {j, k}
    /\ call.before[j].date < call.before[k].date
    /\ DueBefore(t) > 0 /\ DueBefore(j) > 1 /\ DueBefore(k) > 1
    /\ call.amount = DueBefore(t) + DueBefore(j) + 1

NewNotes(k) == [j \in DOMAIN NewEntries(k) |-> NewEntries(k)[j].note]

\* C22 as stated: a record that receives money in a call, the target
\* included, gets exactly one new payment entry.
C22_OneEntryPerRecord ==
    CalledOnRecord =>
        \A k \in DOMAIN book : Len(NewEntries(k)) <= 1

\* C22 as the code has it: every entry carries an amount above 0; a record
\* other than the target gets at most one entry; the target gets at most one
\* entry for its due and, when an amount remains after all the dues, a second
\* one for the advance.
C22_OneEntryPerStep ==
    CalledOnRecord =>
        /\ \A k \in DOMAIN book : \A j \in DOMAIN NewEntries(k) :
                NewEntries(k)[j].amount > 0
        /\ \A k \in DOMAIN book \ {TargetIdx} :
                NewNotes(k) \in {<<>>, <<"Cleared">>}
        /\ NewNotes(TargetIdx) \in
                {<<>>, <<"Payment">>, <<"Advance">>, <<"Payment", "Advance">>}
        /\ Len(NewEntries(TargetIdx)) = 2 =>
                /\ NewEntries(TargetIdx)[1].amount = DueBefore(TargetIdx)
                /\ \A k \in OthersOf(TargetIdx) :
                        DueBefore(k) > 1 => Received(k) = DueBefore(k)

\* C22 witness: the target received two entries in one call, its due and an
\* advance, and another record received one.
C22_Witness ==
    /\ CalledOnRecord
    /\ NewNotes(TargetIdx) = <<"Payment", "Advance">>
    /\ \E k \in DOMAIN book : NewNotes(k) = <<"Cleared">>

\* Record k received an entry in the target step or in the step of the other
\* records.
PaidInStep(k) ==
    \E j \in DOMAIN NewNotes(k) : NewNotes(k)[j] \in {"Payment", "Cleared"}

\* The status the rule of line 1129 gives record est.
StatusByHistory(est) ==
    IF calculateDue(est).paid >= calculateDue(est).total - 1
    THEN "paid" ELSE "partial"

\* C23: after addPaymentToEstimate, every record that received an entry in
\* the target step or in the step of the other records has status paid if
\* the sum of its payment history is at least its total less 1, and partial
\* otherwise, whatever its cached amountPaid was before the call.
C23_StatusFromHistory ==
    CalledOnRecord =>
        \A k \in DOMAIN book :
            PaidInStep(k) => book[k].paymentStatus = StatusByHistory(book[k])

\* What the target's step takes of the amount, and what the step of the other
\* records takes when the amount covers every due above 1.
TargetShare == IF DueBefore(TargetIdx) > 0
               THEN Min(DueBefore(TargetIdx), call.amount) ELSE 0

OtherDues ==
    SumSeq([k \in DOMAIN call.before |->
               IF k \in OthersOf(TargetIdx) /\ DueBefore(k) > 1
               THEN DueBefore(k) ELSE 0])

\* The advance entries the last call appended to record k.
Advances(k) == {j \in DOMAIN NewNotes(k) : NewNotes(k)[j] = "Advance"}

\* C24: when the amount exceeds the target's due and the dues (above 1) of
\* all the other confirmed records of the customer, the call appends to the
\* target one advance entry of exactly the excess, as its last entry, and
\* the target's status is paid; otherwise the call appends no advance entry.
\* No other record ever gets an advance entry.
C24_AdvanceIsRemainder ==
    CalledOnRecord =>
        LET t == TargetIdx
            excess == call.amount - TargetShare - OtherDues
        IN /\ \A k \in DOMAIN book \ {t} : Advances(k) = {}
           /\ IF excess > 0
              THEN /\ Advances(t) = {Len(NewEntries(t))}
                   /\ NewEntries(t)[Len(NewEntries(t))].amount = excess
                   /\ book[t].paymentStatus = "paid"
              ELSE Advances(t) = {}

\* C24 witness: a target that owed nothing and whose status was unpaid gets
\* the advance as its only entry, after another record received its due, and
\* is paid.
C24_Witness ==
    /\ CalledOnRecord
    /\ call.before[TargetIdx].paymentStatus = "unpaid"
    /\ NewNotes(TargetIdx) = <<"Advance">>
    /\ book[TargetIdx].paymentStatus = "paid"
    /\ \E k \in OthersOf(TargetIdx) : Received(k) = DueBefore(k) /\ Received(k) > 1
    /\ NewEntries(TargetIdx)[1].amount = call.amount - OtherDues

\* The dues before the call of all the other confirmed records of the
\* target's customer.
AllOtherDues ==
    SumSeq([k \in DOMAIN call.before |->
               IF k \in OthersOf(TargetIdx) THEN DueBefore(k) ELSE 0])

\* C25: when the amount is the sum of the dues of the target and of all the
\* other confirmed records of its customer, no such record has status
\* partial after the call.
C25_ExactAmountLeavesNoPartial ==
    (CalledOnRecord /\ call.amount = DueBefore(TargetIdx) + AllOtherDues) =>
        \A k \in OthersOf(TargetIdx) \cup {TargetIdx} :
            book[k].paymentStatus # "partial"

\* C26: after addPaymentToEstimate, every record the call appended an entry
\* to has a cached amountPaid equal to the sum of its payment history,
\* whatever the cache was before the call.
C26_CacheEqualsHistory ==
    CalledOnRecord =>
        \A k \in DOMAIN book :
            NewEntries(k) # <<>> =>
                book[k].amountPaid =
                    SumSeq([j \in DOMAIN HistoryOrEmpty(book[k]) |->
                               HistoryOrEmpty(book[k])[j].amount])

\* C27: a record that has an invoice number keeps it through every step that
\* keeps the record: a save as draft or as confirmed, a payment-status
\* update, a payment allocation.
C27_InvoiceNumberKept ==
    [][\A j \in DOMAIN book : \A k \in DOMAIN book' :
          (book[j].id = book'[k].id /\ book[j].invoiceNumber # <<>>) =>
              book'[k].invoiceNumber = book[j].invoiceNumber]_vars

\* C27 witness: a record that was confirmed, received a number, and was saved
\* again as a draft, still with its number.
C27_Witness ==
    \E k \in DOMAIN book :
        /\ book[k].status = "draft"
        /\ book[k].invoiceNumber # <<>>
        /\ editor.currentEstimateId = <<book[k].id>>

\* C28: at the step that ends a reconcile of Dev, what the mutations made
\* while it awaited its fetch have done is still in the local store (the ids
\* added are there, the ids removed are not) and the local clock is not below
\* the value the last of them ticked to.
C28_InFlightMutationKept ==
    [][(/\ log # <<>>
        /\ PendingSyncs(Dev) # {}
        /\ \A s \in SyncSlots : tasks'[Dev][s].pc = "idle") =>
            /\ log[1].addInv \subseteq inventory'[Dev]
            /\ log[1].delInv \cap inventory'[Dev] = {}
            /\ log[1].addEst \subseteq estimates'[Dev]
            /\ log[1].delEst \cap estimates'[Dev] = {}
            /\ StoredTS(lastSyncTs'[Dev]) >= log[1].tick]_vars

\* The step in which a reconcile of Dev ends with notifyStatus('synced').
SyncedEnd ==
    /\ PendingSyncs(Dev) # {}
    /\ \A s \in SyncSlots : tasks'[Dev][s].pc = "idle"
    /\ status'[Dev] = "synced"

\* The local store of Dev holds what the remote envelope holds, under the
\* same clock.
LocalEqualsRemote ==
    LET remote == WorkerGetPayload(STORE) IN
    /\ StoredTS(lastSyncTs[Dev]) = remote.timestamp
    /\ inventory[Dev] = remote.inventory
    /\ estimates[Dev] = remote.estimates

\* C29: when a reconcile of Dev ends with status synced, the local clock is
\* the remote envelope's timestamp and the local lists are the remote's: a
\* mutation made while the reconcile was pending is not reported as synced
\* before it has been pushed.
C29_SyncedMeansEqual ==
    [][SyncedEnd => LocalEqualsRemote']_vars
\* Instance i has no reconcile pending (a mutation is one step here, so none
\* is in progress in any state) and the last one reported synced.
AtRest(i) ==
    /\ \A s \in SyncSlots : tasks[i][s].pc = "idle"
    /\ status[i] = "synced"

\* C30: an instance with no mutation or reconcile in progress, whose last
\* reconcile reported synced and whose local clock equals the remote
\* envelope's timestamp, holds the remote envelope's inventory and estimates.
C30_EqualClocksEqualData ==
    \A i \in Inst :
        (AtRest(i) /\ StoredTS(lastSyncTs[i]) = WorkerGetPayload(STORE).timestamp) =>
            /\ inventory[i] = WorkerGetPayload(STORE).inventory
            /\ estimates[i] = WorkerGetPayload(STORE).estimates
\* C31: after a crash between two local-store writes of one operation, a
\* restart and the next reconcile that ends synced, the local store of Dev
\* holds the remote envelope's lists under the remote envelope's timestamp.
C31_CrashRecovers ==
    (Len(log) = 2 /\ log[2] = "synced") => LocalEqualsRemote
\* C32: no step lowers the timestamp of the envelope stored at the remote.
C32_RemoteTimestampMonotone ==
    [][WorkerGetPayload(STORE').timestamp >= WorkerGetPayload(STORE).timestamp]_vars
\* The network operations of instance i that have started and not ended.
InProgress(i) == {s \in Slots : tasks[i][s].pc # "idle"}

\* C33: at most one network operation (reconcile, force upload, force
\* download) of Dev is in progress at a time.
C33_OneOperationAtATime == Cardinality(InProgress(Dev)) <= 1
\* C34: addPaymentToEstimate changes, besides the target, only records that
\* are confirmed and carry the customer key of the target; a draft other
\* than the target and a record of another customer are what they were.
C34_OnlyCustomerConfirmedTouched ==
    CalledOnRecord =>
        \A k \in DOMAIN book :
            book[k] # call.before[k] => k \in {TargetIdx} \cup OthersOf(TargetIdx)

\* C34 witness: the call paid another record of the customer and booked an
\* advance on the target, while a draft of the same customer and a confirmed
\* record of another customer, both owing more than 1, are what they were.
C34_Witness ==
    /\ CalledOnRecord
    /\ \E k \in OthersOf(TargetIdx) : book[k] # call.before[k]
    /\ Advances(TargetIdx) # {}
    /\ \E j \in DOMAIN book :
          /\ j # TargetIdx
          /\ DueBefore(j) > 1
          /\ book[j] = call.before[j]
          /\ \/ /\ call.before[j].status = "draft"
                /\ getCustKey(call.before[j].customer)
                     = getCustKey(call.before[TargetIdx].customer)
             \/ /\ call.before[j].status = "confirmed"
                /\ getCustKey(call.before[j].customer)
                     # getCustKey(call.before[TargetIdx].customer)
\* C35: in addPaymentToEstimate a record other than the target that has no
\* line items receives no payment entry and keeps its payment status,
\* whatever its packing, shipping and adjustment charges are.
C35_NoItemsSkipped ==
    CalledOnRecord =>
        \A k \in DOMAIN book :
            (k # TargetIdx /\ call.before[k].items = <<>>) =>
                /\ NewEntries(k) = <<>>
                /\ book[k].paymentStatus = call.before[k].paymentStatus
\* C36: a record other than the target that receives an entry in a call has
\* afterwards paid (by its history) no more than its total, and no record
\* other than the target gets an advance entry.
C36_NoOverpayOnOthers ==
    CalledOnRecord =>
        \A k \in DOMAIN book :
            (k # TargetIdx /\ NewEntries(k) # <<>>) =>
                /\ calculateDue(book[k]).paid <= calculateDue(book[k]).total
                /\ Received(k) <= DueBefore(k)
                /\ Advances(k) = {}
\* C36 witness: the amount exceeded every due; another record received its
\* whole due and the surplus is an advance entry on the target.
C36_Witness ==
    /\ CalledOnRecord
    /\ Advances(TargetIdx) # {}
    /\ \E k \in DOMAIN book :
          /\ k # TargetIdx
          /\ NewEntries(k) # <<>>
          /\ Received(k) = DueBefore(k)
          /\ HistoryOrEmpty(call.before[k]) # <<>>
\* C37: a call of deleteInventoryItem, updateInventoryStock,
\* deleteEstimateRecord, updateEstimatePaymentStatus or addPaymentToEstimate
\* that finds none of its ids leaves the inventory, the estimates and the
\* clock as they were, notifies no status and starts no reconcile.
C37_NoopChangesNothing ==
    [][(log' # <<>> /\ ~log'[1].hit) =>
          UNCHANGED <<inventory, estimates, book, lastSyncTs, invView, estView,
                      tasks, isSyncing, status, STORE>>]_vars

\* C37 witness: a payment for an unknown id was the last step, on a
\* configured instance with data and no reconcile pending, where a mutation
\* would have started one.
C37_Witness ==
    /\ log = NoopRecord("addPaymentToEstimate", FALSE)
    /\ config[Dev] /\ ~isSyncing[Dev]
    /\ book # <<>> /\ inventory[Dev] # {}
\* C38: a GET with a token is answered with the body of the last PUT made
\* with that token and answered 200, and with the default envelope (empty
\* inventory, empty estimates, timestamp 0) when there was none.
C38_GetReturnsLastPut ==
    (/\ log # <<>>
     /\ log[1].method = "GET"
     /\ hasAuth(log[1].authHeader)) =>
        /\ log[1].status = 200
        /\ log[1].body = IF LastPut[log[1].authHeader] = <<>>
                         THEN Envelope({}, {}, 0)
                         ELSE LastPut[log[1].authHeader][1]

\* C39: a PUT made with one token leaves what a GET with any other token
\* returns as it was.
C39_TokensIsolated ==
    [][\A t \in Tokens :
          (/\ hasAuth(t)
           /\ log' # <<>>
           /\ t # log'[1].authHeader) =>
              WorkerGetPayload(STORE'[KEY(t)]) = WorkerGetPayload(STORE[KEY(t)])]_vars
\* C40: no two estimate records of the store carry the same invoice number.
C40_InvoiceNumbersUnique ==
    \A j, k \in DOMAIN book :
        (j # k /\ book[j].invoiceNumber # <<>>) =>
            book[j].invoiceNumber # book[k].invoiceNumber
====
